---------------------------- MODULE Spec2Model ----------------------------
(***************************************************************************)
(* Conversational Knowledge Bot: ConversationMemory and KnowledgeBot       *)
(* (src/bot.py) and LangChainKnowledgeBot (src/langchain_bot.py).          *)
(*                                                                         *)
(* Text is modelled by TLA+ strings, character by character: the helpers   *)
(* below compute what Python's str and re operations compute.  Optional    *)
(* values are sequences of length at most one: None is << >> and a value   *)
(* v is << v >>.  The encyclopedia provider (the wikipedia package) is     *)
(* outside the repository: each call to it is one step whose outcome is    *)
(* chosen nondeterministically among a page, an ambiguity signal, a        *)
(* not-found signal and any other exception.                               *)
(***************************************************************************)
EXTENDS Integers, Sequences, FiniteSets, TLC

(***************************************************************************)
(* Bounds of the model.                                                    *)
(***************************************************************************)
\* Largest capacity a ConversationMemory is constructed with in SpecMem.
MaxCap == 3
\* save_context calls on one ConversationMemory in SpecMem go up to
\* its capacity plus MemExtra.
MemExtra == 1
\* process_query calls made on one bot.
MaxTurns == 2

(***************************************************************************)
(* Python str operations.                                                  *)
(***************************************************************************)
None == << >>

Some(v) == << v >>

Ch(s, i) == SubSeq(s, i, i)

MinOf(S) == CHOOSE x \in S : \A y \in S : x <= y

MaxOf(S) == CHOOSE x \in S : \A y \in S : x >= y

UpperAlpha == "ABCDEFGHIJKLMNOPQRSTUVWXYZ"

LowerAlpha == "abcdefghijklmnopqrstuvwxyz"

Digits == "0123456789"

Whitespace == {" ", "\n", "\t"}

isupper(c) == \E i \in 1..26 : Ch(UpperAlpha, i) = c

\* The lower-case letter of each upper-case letter.
LowerOf ==
    [c \in {Ch(UpperAlpha, i) : i \in 1..26} |->
        Ch(LowerAlpha, CHOOSE i \in 1..26 : Ch(UpperAlpha, i) = c)]

LowerCh(c) == IF c \in DOMAIN LowerOf THEN LowerOf[c] ELSE c

\* str.lower(), one half of the text after the other.
RECURSIVE lower(_)
lower(s) ==
    IF Len(s) = 0 THEN ""
    ELSE IF Len(s) = 1 THEN LowerCh(s)
    ELSE LET h == Len(s) \div 2
         IN  lower(SubSeq(s, 1, h)) \o lower(SubSeq(s, h + 1, Len(s)))

strip(s) ==
    LET keep == {i \in 1..Len(s) : Ch(s, i) \notin Whitespace}
    IN  IF keep = {} THEN "" ELSE SubSeq(s, MinOf(keep), MaxOf(keep))

startswith(s, p) == Len(p) <= Len(s) /\ SubSeq(s, 1, Len(p)) = p

\* s[n:]
DropFirst(s, n) == SubSeq(s, n + 1, Len(s))

\* The positions at which p occurs in s.
Occurrences(s, p) ==
    {i \in 1..(Len(s) - Len(p) + 1) : SubSeq(s, i, i + Len(p) - 1) = p}

\* p in s
contains(s, p) == Occurrences(s, p) # {}

\* seq[:n]
Take(seq, n) == SubSeq(seq, 1, IF Len(seq) < n THEN Len(seq) ELSE n)

(***************************************************************************)
(* ConversationMemory (src/bot.py).  The timestamp of an entry is written   *)
(* and never read by the program; an entry is modelled by its two texts.   *)
(***************************************************************************)
\* An append that never evicts.
deque_append_unbounded(d, maxlen, x) == Append(d, x)

\* collections.deque(maxlen=...).append
deque_append(d, maxlen, x) ==
    IF maxlen = 0 THEN << >>
    ELSE IF Len(d) >= maxlen THEN Tail(d) \o << x >>
    ELSE Append(d, x)

ConversationMemory(max_history) ==
    [maxlen |-> max_history, history |-> << >>, last_user_query |-> None]

\* A save_context that, once the history is full, drops the new entry and
\* keeps the oldest ones.
save_context_keeps_oldest(mem, user_input, bot_response) ==
    [mem EXCEPT
        !.history = IF Len(mem.history) >= mem.maxlen THEN mem.history
                    ELSE Append(mem.history,
                                [user |-> user_input, bot |-> bot_response]),
        !.last_user_query = Some(user_input)]

save_context(mem, user_input, bot_response) ==
    [mem EXCEPT
        !.history = deque_append(mem.history, mem.maxlen,
                                 [user |-> user_input, bot |-> bot_response]),
        !.last_user_query = Some(user_input)]

RECURSIVE JoinLines(_)
JoinLines(lines) ==
    IF lines = << >> THEN ""
    ELSE IF Len(lines) = 1 THEN lines[1]
    ELSE lines[1] \o "\n" \o JoinLines(Tail(lines))

RECURSIVE MemoryLines(_)
MemoryLines(h) ==
    IF h = << >> THEN << >>
    ELSE << "User: " \o h[1].user, "Bot: " \o h[1].bot >> \o MemoryLines(Tail(h))

load_memory(mem) ==
    IF mem.history = << >> THEN "" ELSE JoinLines(MemoryLines(mem.history))

get_last_user_input(mem) ==
    IF mem.last_user_query = None THEN "" ELSE mem.last_user_query[1]

MemoryClear(mem) ==
    [mem EXCEPT !.history = << >>, !.last_user_query = None]


(***************************************************************************)
(* More str operations: split(), ' '.join, replace, rstrip.                *)
(***************************************************************************)
\* str.split(): the maximal runs of non-whitespace characters, in order.
RECURSIVE split(_)
split(s) ==
    LET t == strip(s)
        ws == {i \in 1..Len(t) : Ch(t, i) \in Whitespace}
    IN  IF t = "" THEN << >>
        ELSE IF ws = {} THEN << t >>
        ELSE << SubSeq(t, 1, MinOf(ws) - 1) >> \o split(DropFirst(t, MinOf(ws)))

RECURSIVE JoinWith(_, _)
JoinWith(sep, parts) ==
    IF parts = << >> THEN ""
    ELSE IF Len(parts) = 1 THEN parts[1]
    ELSE parts[1] \o sep \o JoinWith(sep, Tail(parts))

\* s.replace(old, new), old not empty: leftmost occurrences, not overlapping.
RECURSIVE replace(_, _, _)
replace(s, old, new) ==
    LET occ == Occurrences(s, old)
    IN  IF occ = {} THEN s
        ELSE SubSeq(s, 1, MinOf(occ) - 1) \o new
             \o replace(DropFirst(s, MinOf(occ) + Len(old) - 1), old, new)

\* s.rstrip(c) for a single character c
RECURSIVE rstrip_char(_, _)
rstrip_char(s, c) ==
    IF s # "" /\ Ch(s, Len(s)) = c
    THEN rstrip_char(SubSeq(s, 1, Len(s) - 1), c)
    ELSE s

\* The first prefix of the table that the lower-cased text starts with.
FirstPrefix(prefixes, text_lower) ==
    LET hits == {k \in 1..Len(prefixes) : startswith(text_lower, prefixes[k])}
    IN  IF hits = {} THEN None ELSE Some(prefixes[MinOf(hits)])

(***************************************************************************)
(* KnowledgeBot (src/bot.py): the pure parts.                              *)
(***************************************************************************)
KB_prefixes ==
    << "who is", "who was", "who are", "who does",
       "what is", "what was", "what are", "what does",
       "where is", "where was", "where are", "where does",
       "when is", "when was", "when are", "when does",
       "why is", "why was", "why are", "why does",
       "how is", "how was", "how are", "how does",
       "tell me about", "tell me more about", "describe",
       "explain", "information about", "details about",
       "give me information about", "i want to know about" >>

KB_clean_query(q) ==
    LET query == strip(q)
        hit == FirstPrefix(KB_prefixes, lower(query))
    IN  IF hit = None THEN query ELSE strip(DropFirst(query, Len(hit[1])))

KB_handle_greeting ==
    " Hello! I'm your Conversational Knowledge Bot.\n\nI can:\n- Answer any factual question using Wikipedia\n- Search for information about people, places, concepts, history, science, and more\n- Remember our conversation for context\n\nTry asking:\n- \"Who is the CEO of Google?\"\n- \"What is quantum computing?\"\n- \"Where is the Taj Mahal?\"\n- \"When was World War II?\"\n- \"Who painted the Mona Lisa?\"\n- \"What is the capital of Australia?\"\n\nWhat would you like to know?"

KB_handle_thanks ==
    " You're welcome! Feel free to ask more questions anytime."

\* The bullet character of the source text, which is not ASCII and which no
\* code tests, is written "-".
KB_get_help ==
    " **HELP - Conversational Knowledge Bot**\n\n**What I can do:**\n- Answer ANY factual question using Wikipedia\n- Search for information about people, places, events, concepts\n- Explain topics and provide detailed information\n- Provide source links for verification\n\n**Example Questions:**\n- Who is the CEO of OpenAI?\n- What is artificial intelligence?\n- Where is the Amazon River located?\n- When did World War II end?\n- Who discovered penicillin?\n- What is the population of Tokyo?\n- Who wrote Romeo and Juliet?\n- What is photosynthesis?\n- Where is the Great Barrier Reef?\n- Who is the President of France?\n\n**Tips:**\n- Be specific with names and topics\n- Use full names for people\n- Check spelling of proper nouns\n\nType 'quit' to exit anytime!"

KB_ask_a_question == "Please ask a question."

KB_provide_topic == "Please provide a specific topic to search for."

\* The two not-found returns of _search_wikipedia.
KB_no_results(query) ==
    "Could not find information about '" \o query
    \o "'.\n\n Try rephrasing your question or checking the spelling."

KB_no_page(query) ==
    " Could not find information about '" \o query
    \o "'.\n\n Try being more specific in your question."

KB_render(title, summary, url) ==
    "**" \o title \o "**\n\n" \o summary \o "\n\n" \o " [Read more](" \o url \o ")"

KB_render_option(title, summary, url) ==
    "**" \o title \o "**\n\n" \o summary \o "\n\n" \o " [Read more](" \o url \o ")\n\n"
    \o " Multiple matches found. Showing the most relevant result."

\* Strategy 3 over every window: for i in range(len(words))
KB_key_terms_every_window(query) ==
    LET words == split(query)
    IN  IF Len(words) >= 2
        THEN [i \in 1..Len(words) |->
                JoinWith(" ", SubSeq(words, i,
                              IF i + 2 > Len(words) THEN Len(words) ELSE i + 2))]
        ELSE << >>

\* Strategy 3: ' '.join(words[i:i+3]) for i in range(min(3, len(words)))
KB_key_terms(query) ==
    LET words == split(query)
        n == IF Len(words) < 3 THEN Len(words) ELSE 3
    IN  IF Len(words) >= 2
        THEN [i \in 1..n |->
                JoinWith(" ", SubSeq(words, i,
                              IF i + 2 > Len(words) THEN Len(words) ELSE i + 2))]
        ELSE << >>

(***************************************************************************)
(* Python re: the patterns the program uses.                               *)
(***************************************************************************)
\* \w for the characters of the model (ASCII)
IsWordCh(c) ==
    \/ \E i \in 1..26 : Ch(UpperAlpha, i) = c \/ Ch(LowerAlpha, i) = c
    \/ \E i \in 1..10 : Ch(Digits, i) = c
    \/ c = "_"

\* Whether s has a word character at position i (none outside the string).
WordAt(s, i) == i >= 1 /\ i <= Len(s) /\ IsWordCh(Ch(s, i))

\* \b between positions i - 1 and i
Boundary(s, i) == WordAt(s, i - 1) # WordAt(s, i)

\* The length of the whitespace run of s that starts at position a.
RECURSIVE SpaceRun(_, _)
SpaceRun(s, a) ==
    IF a <= Len(s) /\ Ch(s, a) \in Whitespace THEN 1 + SpaceRun(s, a + 1) ELSE 0

\* (.+?)(?:\?|$) from position p: the ends e (exclusive) the lazy group can
\* stop at: at least one character, none a newline, then "?" or the end of
\* the string (or of its last line).
LazyEnds(s, p) ==
    {e \in (p + 1)..(Len(s) + 1) :
        /\ \A k \in p..(e - 1) : Ch(s, k) # "\n"
        /\ \/ e = Len(s) + 1
           \/ Ch(s, e) = "?"
           \/ (e = Len(s) /\ Ch(s, e) = "\n")}

\* The match of  lit\s+(.+?)(?:\?|$)  that starts at occurrence i of lit:
\* \s+ is greedy and gives back, the group is lazy.  The set of capture
\* starts that lead to a match.
CaptureStarts(s, lit, i) ==
    LET a == i + Len(lit)
    IN  {p \in (a + 1)..(a + SpaceRun(s, a)) : LazyEnds(s, p) # {}}

\* re.search(lit + r'\s+(.+?)(?:\?|$)', s): group 1 of the leftmost match.
PatternSearch(s, lit) ==
    LET starts == {i \in Occurrences(s, lit) : CaptureStarts(s, lit, i) # {}}
    IN  IF starts = {} THEN None
        ELSE LET i == MinOf(starts)
                 p == MaxOf(CaptureStarts(s, lit, i))
             IN  Some(SubSeq(s, p, MinOf(LazyEnds(s, p)) - 1))

\* re.search(r'\*\*(.+?)\*\*', s): group 1 of the leftmost match.
BoldEnds(s, i) ==
    {e \in (i + 3)..(Len(s) - 1) :
        /\ SubSeq(s, e, e + 1) = "**"
        /\ \A k \in (i + 2)..(e - 1) : Ch(s, k) # "\n"}

BoldSearch(s) ==
    LET starts == {i \in Occurrences(s, "**") : BoldEnds(s, i) # {}}
    IN  IF starts = {} THEN None
        ELSE LET i == MinOf(starts)
             IN  Some(SubSeq(s, i + 2, MinOf(BoldEnds(s, i)) - 1))

\* The alternative of (the|a|an), tried in this order, that matches at
\* position i with a word boundary on both sides; "" when none does.
ArticleAt(s, i) ==
    LET fits(w) == /\ i + Len(w) - 1 <= Len(s)
                   /\ SubSeq(s, i, i + Len(w) - 1) = w
                   /\ Boundary(s, i)
                   /\ Boundary(s, i + Len(w))
    IN  IF fits("the") THEN "the"
        ELSE IF fits("a") THEN "a"
        ELSE IF fits("an") THEN "an"
        ELSE ""

\* re.sub(r'\b(the|a|an)\b', '', s), from position i on
RECURSIVE SubArticlesFrom(_, _)
SubArticlesFrom(s, i) ==
    IF i > Len(s) THEN ""
    ELSE IF ArticleAt(s, i) # "" THEN SubArticlesFrom(s, i + Len(ArticleAt(s, i)))
    ELSE Ch(s, i) \o SubArticlesFrom(s, i + 1)

sub_articles(s) == SubArticlesFrom(s, 1)

\* s.split(sep) for a single character sep
RECURSIVE split_on(_, _)
split_on(s, sep) ==
    LET occ == Occurrences(s, sep)
    IN  IF occ = {} THEN << s >>
        ELSE << SubSeq(s, 1, MinOf(occ) - 1) >> \o split_on(DropFirst(s, MinOf(occ)), sep)

\* any(w in s for w in words)
ContainsAny(s, words) == \E w \in words : contains(s, w)

(***************************************************************************)
(* LangChainKnowledgeBot (src/langchain_bot.py): the pure parts.           *)
(***************************************************************************)
\* The patterns dictionary of _extract_entity, in insertion order: the
\* literal that precedes  \s+(.+?)(?:\?|$).
LC_patterns ==
    << "ceo of", "president of", "prime minister of", "capital of",
       "who is", "what is", "tell me about", "founder of" >>

\* The literal of the first pattern of the table that matches the query
\* (the loop of lines 141-143), if any.
LC_matched_pattern(query) ==
    LET query_lower == strip(lower(query))
        hits == {k \in 1..Len(LC_patterns) :
                    PatternSearch(query_lower, LC_patterns[k]) # None}
    IN  IF hits = {} THEN None ELSE Some(LC_patterns[MinOf(hits)])

LC_extract_entity(query) ==
    LET query_lower == strip(lower(query))
        hits == {k \in 1..Len(LC_patterns) :
                    PatternSearch(query_lower, LC_patterns[k]) # None}
    IN  IF hits = {} THEN None
        ELSE LET m == PatternSearch(query_lower, LC_patterns[MinOf(hits)])
                 entity == strip(sub_articles(strip(m[1])))
             IN  Some(strip(rstrip_char(entity, "?")))

\* The first "First Last" pair of the fallback scan of
\* _extract_entity_from_response.
LC_capitalized_pair(response) ==
    LET words == split(response)
        ok(i) == /\ isupper(Ch(words[i], 1))
                 /\ Len(words[i]) > 2
                 /\ i + 1 <= Len(words)
                 /\ isupper(Ch(words[i + 1], 1))
                 /\ Len(words[i] \o " " \o words[i + 1]) > 5
                 /\ ~ContainsAny(lower(words[i] \o " " \o words[i + 1]),
                                 {"page", "summary", "wikipedia"})
        hits == {i \in 1..Len(words) : ok(i)}
    IN  IF hits = {} THEN None
        ELSE Some(words[MinOf(hits)] \o " " \o words[MinOf(hits) + 1])

LC_extract_entity_from_response(response) ==
    LET title_match == BoldSearch(response)
    IN  IF /\ title_match # None
           /\ ~ContainsAny(lower(strip(title_match[1])),
                           {"page", "summary", "wikipedia", "list of"})
        THEN Some(strip(title_match[1]))
        ELSE LC_capitalized_pair(response)

LC_follow_up_prefixes ==
    {"he ", "she ", "they ", "it ", "where ", "when ", "how ", "why ", "which ",
     "tell me more", "more about", "what about"}

\* what('s| is| was)? (his|her|their|its) followed by a space
LC_follow_up_possessives ==
    {"what" \o g \o " " \o p \o " " :
        g \in {"", "'s", " is", " was"}, p \in {"his", "her", "their", "its"}}

LC_follow_up_words ==
    {"background", "history", "biography", "longest", "shortest", "biggest",
     "smallest", "highest", "lowest", "tallest", "among them", "of them"}

\* An _is_follow_up whose table ends at '^what about': the words that match
\* anywhere are gone.
LC_is_follow_up_anchored_only(query) ==
    LET query_lower == strip(lower(query))
    IN  \/ \E p \in LC_follow_up_prefixes : startswith(query_lower, p)
        \/ ContainsAny(query_lower, LC_follow_up_possessives)

LC_is_follow_up(query) ==
    LET query_lower == strip(lower(query))
    IN  \/ \E p \in LC_follow_up_prefixes : startswith(query_lower, p)
        \/ ContainsAny(query_lower, LC_follow_up_possessives)
        \/ ContainsAny(query_lower, LC_follow_up_words)

LC_prefixes ==
    << "who is", "who was", "what is", "what was",
       "where is", "where was", "when is", "when was",
       "tell me about", "explain", "describe",
       "more about", "tell more about" >>

\* A _clean_query that cuts the prefix from the lower-cased text.
LC_clean_query_lowercased(q) ==
    LET query == lower(strip(q))
        hit == FirstPrefix(LC_prefixes, query)
    IN  IF hit = None THEN query ELSE strip(DropFirst(query, Len(hit[1])))

LC_clean_query(q) ==
    LET query == strip(q)
        hit == FirstPrefix(LC_prefixes, lower(query))
    IN  IF hit = None THEN query ELSE strip(DropFirst(query, Len(hit[1])))

\* SimpleMemory.save_context
SimpleMemory_save_context(history, input_text, response_text) ==
    history \o "Human: " \o input_text \o "\nAI: " \o response_text \o "\n"

\* reversed(lines): the last line that starts with p, if any
LastLineWith(lines, p) ==
    LET hits == {i \in 1..Len(lines) : startswith(lines[i], p)}
    IN  IF hits = {} THEN None ELSE Some(lines[MaxOf(hits)])

\* What one "Human:" line of the history yields as a topic.
LC_topic_of_human_line(line) ==
    LET human_question == strip(replace(line, "Human:", ""))
        entity == LC_extract_entity(human_question)
    IN  IF entity # None /\ entity[1] # "" THEN entity
        ELSE IF Len(human_question) > 3 THEN Some(human_question)
        ELSE None

LC_extract_last_topic_from_history(history) ==
    LET lines == split_on(history, "\n")
        last_ai == LastLineWith(lines, "AI:")
        topic_match == IF last_ai = None THEN None ELSE BoldSearch(last_ai[1])
        humans == {i \in 1..Len(lines) :
                      /\ startswith(lines[i], "Human:")
                      /\ LC_topic_of_human_line(lines[i]) # None}
    IN  IF history = "" THEN ""
        ELSE IF /\ topic_match # None
                /\ ~ContainsAny(lower(strip(topic_match[1])),
                                {"page", "summary", "wikipedia"})
        THEN strip(topic_match[1])
        ELSE IF humans # {} THEN LC_topic_of_human_line(lines[MaxOf(humans)])[1]
        ELSE ""

LC_handle_greeting ==
    " Hello! I'm your LangChain-powered Conversational Knowledge Bot.\n\nI can:\n- Answer factual questions using Wikipedia\n- Remember our conversation for follow-up questions\n- Search for information about people, places, concepts, and more\n\nTry asking:\n- \"Who is the CEO of Google?\"\n- \"What is quantum computing?\"\n- \"Tell me about World War 2\"\n- \"Capital of France\"\n\nWhat would you like to know?"

LC_handle_thanks ==
    " You're welcome! Feel free to ask more questions anytime."

\* The bullet characters of the source text, which are not ASCII and which
\* no code tests, are written "-".
LC_get_help ==
    " **HELP - LangChain Knowledge Bot**\n\n**What I can do:**\n- Answer factual questions using Wikipedia\n- Remember conversation context for follow-ups\n- Search for information about any topic\n\n**Example Questions:**\n- Who is the CEO of OpenAI?\n- What is artificial intelligence?\n- Tell me about World War 2\n- President of United States\n- Capital of France\n\n**LangChain Components Used:**\n1. ConversationBufferMemory - Stores conversation history\n2. Memory.save_context() - Saves exchanges\n3. Memory.load_memory_variables() - Retrieves history\n\nType 'quit' to exit anytime!"

LC_ask_a_question == "Please ask a question."

LC_provide_topic == "Please provide a specific topic."

LC_not_found(clean_query) ==
    " Could not find information about '" \o clean_query
    \o "'.\n\n Try rephrasing your question."

LC_error(msg) == " Error searching Wikipedia: " \o msg

\* "**{title}**\n\n{summary}\n\n" followed by the link, which the return
\* statements write with or without a leading space.
LC_render(title, summary, url) ==
    "**" \o title \o "**\n\n" \o summary \o "\n\n" \o " [Read more](" \o url \o ")"

LC_render_plain(title, summary, url) ==
    "**" \o title \o "**\n\n" \o summary \o "\n\n" \o "[Read more](" \o url \o ")"

LC_render_option(title, summary, url) ==
    "**" \o title \o "**\n\n" \o summary \o "\n\n" \o " [Read more](" \o url \o ")\n\n"
    \o " Multiple matches found."

LC_render_company(title, summary, url) ==
    "**" \o title \o "**\n\n" \o summary \o "\n\n" \o " [Read more](" \o url \o ")\n\n"
    \o " CEO information may be available in a separate Wikipedia page. Try searching for the CEO's name directly."

\* search_attempts and general_searches of the CEO branch
LC_search_attempts(company_name) ==
    << company_name \o " CEO",
       "CEO of " \o company_name,
       company_name \o " chief executive officer",
       "List of " \o company_name \o " executives",
       "Current " \o company_name \o " CEO",
       company_name \o " leadership" >>

LC_general_searches(company_name) ==
    << company_name \o " chief executive officer",
       company_name \o " CEO biography",
       company_name \o " leadership team",
       "List of " \o company_name \o " executives" >>

LC_company_name(clean_query) == strip(replace(clean_query, "CEO of", ""))

\* The acceptance tests of the CEO branch: the direct lookup (line 399), the
\* search probing (lines 420-433) and the general searches (lines 464-476).
LC_direct_indicators ==
    {"chief executive officer", "ceo", "executive", "born", "appointed",
     "sundar pichai", "tim cook", "satya nadella", "mark zuckerberg"}

LC_ceo_indicators ==
    {"chief executive officer", "ceo", "executive", "born", "appointed",
     "sundar pichai", "tim cook", "satya nadella", "mark zuckerberg",
     "business executive", "american business", "indian business"}

LC_general_indicators ==
    {"chief executive officer", "ceo", "executive", "born", "appointed",
     "business executive", "american business", "indian business"}

LC_person_indicators == {"born", "businessman", "executive", "ceo"}

LC_accept_direct(summary) == ContainsAny(lower(summary), LC_direct_indicators)

\* The filter without lines 430 and 473: the company page passes too.
LC_accept_probe_any_title(indicators, company_name, title, summary) ==
    \/ ContainsAny(lower(summary), indicators)
    \/ ContainsAny(lower(title), LC_person_indicators)

LC_accept_probe(indicators, company_name, title, summary) ==
    /\ \/ ContainsAny(lower(summary), indicators)
       \/ ContainsAny(lower(title), LC_person_indicators)
    /\ \/ ~contains(lower(title), lower(company_name))
       \/ contains(lower(title), "ceo")

\* A search_query without the role phrases: the entity alone.
LC_search_query_unqualified(query, entity) ==
    IF entity # None /\ entity[1] # "" THEN entity[1] ELSE query

\* search_query of process_query (lines 640-651)
LC_search_query(query, entity) ==
    IF entity # None /\ entity[1] # ""
    THEN IF contains(lower(query), "ceo") THEN "CEO of " \o entity[1]
         ELSE IF contains(lower(query), "president") THEN "President of " \o entity[1]
         ELSE IF contains(lower(query), "capital") THEN entity[1] \o " (capital)"
         ELSE entity[1]
    ELSE query

\* The aspect branch _handle_follow_up takes (lines 225-255).
LC_aspect(query) ==
    LET query_lower == strip(lower(query))
    IN  IF ContainsAny(query_lower, {"study", "education", "college", "university"})
        THEN "education"
        ELSE IF ContainsAny(query_lower, {"party", "political", "belongs"})
        THEN "political party"
        ELSE IF ContainsAny(query_lower, {"born", "birthplace", "from"})
        THEN "birthplace"
        ELSE IF ContainsAny(query_lower, {"profession", "work", "career"})
        THEN "profession"
        ELSE IF ContainsAny(query_lower, {"where", "when", "how", "what"})
        THEN "general"
        ELSE "default"

\* The query _handle_follow_up first hands to _search_wikipedia_direct.
LC_follow_up_query(last_topic, query) ==
    LET aspect == LC_aspect(query)
    IN  IF aspect = "general" THEN last_topic \o " " \o query
        ELSE IF aspect = "default" THEN last_topic
        ELSE last_topic \o " " \o aspect

(***************************************************************************)
(* The provider (the wikipedia package) and the user: what a call can      *)
(* answer and what a user can type.                                        *)
(***************************************************************************)
Titles == {"Sam Altman", "OpenAI"}

Summaries ==
    {"Sam Altman (born 1985) is the CEO of OpenAI.",
     "OpenAI is an AI research lab."}

UrlOf(title) == "https://en.wikipedia.org/wiki/" \o replace(title, " ", "_")

\* Ordered title lists: search results and disambiguation options.  The
\* longest has a sixth entry, past the [:5] slices of the program, and an
\* eleventh, past the results=10 of its searches.
TitleLists ==
    {<< >>,
     << "Quantum computing", "Sam Altman" >>,
     << "OpenAI", "OpenAI", "OpenAI", "OpenAI", "OpenAI", "Sam Altman",
        "Sam Altman", "Sam Altman", "Sam Altman", "Sam Altman",
        "Quantum computing" >>}

\* str(e) of an exception that is neither of the wikipedia signals.
TransportMessages == {"HTTPSConnectionPool: Read timed out"}

Ok(v) == [kind |-> "ok", val |-> v]

Raise(e, v) == [kind |-> e, val |-> v]

\* DisambiguationError (with its options), PageError, and any other
\* exception (a transport error).
Exceptions ==
    {Raise("DisambiguationError", l) : l \in TitleLists}
    \cup {Raise("PageError", "")}
    \cup {Raise("Other", m) : m \in TransportMessages}

\* wikipedia.page(...)
PageOutcomes ==
    {Ok([title |-> t, url |-> UrlOf(t)]) : t \in Titles} \cup Exceptions

\* wikipedia.summary(...)
SummaryOutcomes == {Ok(x) : x \in Summaries} \cup Exceptions

\* page.content of a page, read by _extract_education_info.
Contents ==
    {"He attended Stanford. He studied there! He left college. No degree? He founded a school. He has an MBA. He is rich.",
     "He is rich."}

\* wikipedia.page(...) where the content of the page is read
ContentPageOutcomes ==
    {Ok([title |-> "Sam Altman", url |-> UrlOf("Sam Altman"), content |-> x]) :
        x \in Contents} \cup Exceptions

\* wikipedia.search(...)
SearchOutcomes == {Ok(l) : l \in TitleLists} \cup Exceptions

Utterances ==
    {"Hello", "help", "thanks", "",
     "Who is the CEO of OpenAI?", "where was he born?",
     "where did he study?", "What is quantum computing?", "who is", "where is",
     "What is the capital of France?"}

MemoryInputs == {"hello", "Who is Marie Curie?"}

MemoryResponses == {"Hi!", "**Marie Curie**"}

(***************************************************************************)
(* State.                                                                  *)
(***************************************************************************)
VARIABLES
    impl,         \* the class under execution
    memory,       \* KnowledgeBot.memory, a ConversationMemory
    mem_log,      \* every entry saved into memory since it was last empty
    lc_history,   \* LangChainKnowledgeBot.memory.history (SimpleMemory)
    last_entity,  \* LangChainKnowledgeBot.last_entity
    pc,           \* where the call in progress stands; "idle" between calls
    query,        \* the stripped user text of the call in progress
    fr,           \* the local variables of the call in progress
    out,          \* how the last call ended and what it returned
    gh,           \* what the call in progress did so far (for the properties)
    turns,        \* process_query calls started
    peers         \* the bots of the process, when there is more than one

vars == << impl, memory, mem_log, lc_history, last_entity, pc, query, fr, out,
           gh, turns, peers >>

EmptyFrame ==
    [caller |-> "", sq |-> "", clean |-> "", company |-> "", stage |-> 0,
     k |-> 0, results |-> << >>, cands |-> << >>, i |-> 0,
     options |-> << >>, j |-> 0,
     page |-> None, topic |-> "", main |-> "", result |-> ""]

NoOut == [op |-> "", kind |-> "none", response |-> ""]

\* One bot alone: nothing else in the process.
NoPeers ==
    [active |-> 0, class |-> << >>, ref |-> << >>, heap |-> << >>,
     last_entity |-> << >>, owned |-> << >>]

EmptyGhost ==
    [called |-> FALSE, queries |-> << >>, ceo |-> FALSE, accepted |-> None,
     tried |-> << >>, tried_options |-> << >>,
     pre_entity |-> None, pre_history |-> "", pre_memory |-> << >>,
     first_fetch |-> None, offered |-> None, ranked |-> None,
     searches |-> 0, mined |-> FALSE]

\* The state of a bot as one value: the handlers below are functions from
\* such a value to the next one.
Cfg ==
    [memory |-> memory, mem_log |-> mem_log, lc_history |-> lc_history,
     last_entity |-> last_entity, pc |-> pc, query |-> query, fr |-> fr,
     out |-> out, gh |-> gh]

Becomes(c) ==
    \E d \in {c} :
        /\ memory' = d.memory
        /\ mem_log' = d.mem_log
        /\ lc_history' = d.lc_history
        /\ last_entity' = d.last_entity
        /\ pc' = d.pc
        /\ query' = d.query
        /\ fr' = d.fr
        /\ out' = d.out
        /\ gh' = d.gh

\* The call returns text to its caller: its local variables are gone.
Returned(c, op, text) ==
    [c EXCEPT !.pc = "done", !.fr = EmptyFrame,
              !.out = [op |-> op, kind |-> "returned", response |-> text]]

\* The call ends with an exception that reaches its caller.
Raised(c, op, msg) ==
    [c EXCEPT !.pc = "done", !.fr = EmptyFrame,
              !.out = [op |-> op, kind |-> "raised", response |-> msg]]

\* A provider call was made and answered.
Called(c) == [c EXCEPT !.gh.called = TRUE]

\* wikipedia.page was called for a candidate of the list being probed.
Tried(c, cand) ==
    [c EXCEPT !.gh.called = TRUE, !.gh.tried = Append(c.gh.tried, cand),
              !.gh.first_fetch = IF c.gh.first_fetch = None THEN Some(cand)
                                 ELSE c.gh.first_fetch]

\* The same for an option of a DisambiguationError in KnowledgeBot.
TriedOption(c, option) ==
    [c EXCEPT !.gh.called = TRUE,
              !.gh.tried_options = Append(c.gh.tried_options, option)]

\* A candidate of a list was accepted: its page and summary were fetched.
Accept(c, rung, idx, list, summary) ==
    [c EXCEPT !.gh.accepted =
        Some([rung |-> rung, idx |-> idx, cand |-> list[idx], of |-> list,
              title |-> c.fr.page[1].title, summary |-> summary])]

\* wikipedia.search answered with a ranked list of titles.
Searched(c, o) ==
    [c EXCEPT !.gh.called = TRUE, !.gh.searches = c.gh.searches + 1,
              !.gh.ranked = IF o.kind = "ok" THEN Some(o.val) ELSE None]

\* A DisambiguationError offered its options.
Offered(c, options) == [c EXCEPT !.gh.offered = Some(options)]

\* Another list of candidates is probed from here on.
NewList(c) == [c EXCEPT !.gh.tried = << >>]

(***************************************************************************)
(* KnowledgeBot.process_query (src/bot.py), one step per provider call.    *)
(***************************************************************************)
DefaultMaxHistory == 10

\* Lines 88-91: the response is saved and returned.
KB_finish(c, response) ==
    Returned([c EXCEPT
                 !.memory = save_context(c.memory, c.query, response),
                 !.mem_log = Append(c.mem_log,
                                    [user |-> c.query, bot |-> response])],
             "process_query", response)

\* _search_wikipedia up to its first provider call (lines 120-131).
KB_search_wikipedia(c) ==
    LET clean_query == KB_clean_query(c.query)
    IN  IF clean_query = "" THEN KB_finish(c, KB_provide_topic)
        ELSE [c EXCEPT !.pc = "kb_search", !.fr.stage = 1,
                       !.fr.clean = clean_query, !.fr.sq = clean_query]

\* process_query up to its first provider call (lines 69-86).
KB_process_query(c, text) ==
    LET q == strip(text)
        c0 == [c EXCEPT !.query = q, !.fr = EmptyFrame, !.out = NoOut,
                        !.gh = [EmptyGhost EXCEPT
                                   !.pre_memory = c.memory.history]]
    IN  IF q = "" THEN Returned(c0, "process_query", KB_ask_a_question)
        ELSE IF lower(q) \in {"hi", "hello", "hey"}
        THEN Returned(c0, "process_query", KB_handle_greeting)
        ELSE IF lower(q) \in {"help", "?"}
        THEN Returned(c0, "process_query", KB_get_help)
        ELSE IF contains(lower(q), "thank")
        THEN Returned(c0, "process_query", KB_handle_thanks)
        ELSE KB_search_wikipedia(c0)

\* wikipedia.search answered (strategies 1 to 3, lines 129-157): an
\* exception counts as no result.
KB_on_search(c, o) ==
    LET search_results == IF o.kind = "ok" THEN o.val ELSE << >>
        c1 == Searched(c, o)
        key_terms == KB_key_terms(c.query)
    IN  IF search_results # << >>
        THEN [c1 EXCEPT !.pc = "kb_page", !.fr.results = search_results,
                        !.fr.i = 1, !.fr.stage = 0, !.fr.k = 0, !.fr.sq = ""]
        ELSE IF c.fr.stage = 1
        THEN [c1 EXCEPT !.fr.stage = 2, !.fr.sq = c.query]
        ELSE IF c.fr.stage = 2 /\ key_terms # << >>
        THEN [c1 EXCEPT !.fr.stage = 3, !.fr.k = 1, !.fr.sq = key_terms[1]]
        ELSE IF c.fr.stage = 3 /\ c.fr.k < Len(key_terms)
        THEN [c1 EXCEPT !.fr.k = c.fr.k + 1, !.fr.sq = key_terms[c.fr.k + 1]]
        ELSE KB_finish(c1, KB_no_results(c.query))

\* for result in search_results[:5]: the next result, or line 195.
KB_next_result(c) ==
    IF c.fr.i < Len(Take(c.fr.results, 5))
    THEN [c EXCEPT !.pc = "kb_page", !.fr.i = c.fr.i + 1, !.fr.page = None,
                   !.fr.options = << >>, !.fr.j = 0,
                   !.gh.tried_options = << >>]
    ELSE KB_finish(c, KB_no_page(c.query))

\* for option in e.options: every option is probed, not the first five.
KB_start_options_unbounded(c, options) ==
    IF options = << >> THEN KB_next_result(Offered(c, options))
    ELSE [Offered(c, options) EXCEPT
              !.pc = "kb_opt_page", !.fr.options = options,
              !.fr.j = 1, !.fr.page = None, !.gh.tried_options = << >>]

\* except DisambiguationError as e: for option in e.options[:5]
KB_start_options(c, options) ==
    IF Take(options, 5) = << >> THEN KB_next_result(Offered(c, options))
    ELSE [Offered(c, options) EXCEPT
              !.pc = "kb_opt_page", !.fr.options = Take(options, 5),
              !.fr.j = 1, !.fr.page = None, !.gh.tried_options = << >>]

KB_next_option(c) ==
    IF c.fr.j < Len(c.fr.options)
    THEN [c EXCEPT !.pc = "kb_opt_page", !.fr.j = c.fr.j + 1, !.fr.page = None]
    ELSE KB_next_result(c)

\* wikipedia.page(result, auto_suggest=True) answered (line 162).
KB_on_page(c, o) ==
    LET c1 == Tried(c, c.fr.results[c.fr.i])
    IN  IF o.kind = "ok"
        THEN [c1 EXCEPT !.pc = "kb_summary", !.fr.page = Some(o.val)]
        ELSE IF o.kind = "DisambiguationError" THEN KB_start_options(c1, o.val)
        ELSE KB_next_result(c1)

\* wikipedia.summary(result, sentences=5, auto_suggest=True) answered
\* (lines 163-171).
KB_on_summary(c, o) ==
    LET c1 == Called(c)
        page == c.fr.page[1]
    IN  IF o.kind = "ok"
        THEN KB_finish(Accept(c1, "results", c.fr.i, Take(c.fr.results, 5),
                              o.val),
                       KB_render(page.title, o.val, page.url))
        ELSE IF o.kind = "DisambiguationError" THEN KB_start_options(c1, o.val)
        ELSE KB_next_result(c1)

\* wikipedia.page(option) answered (line 177).
KB_on_option_page(c, o) ==
    LET c1 == TriedOption(c, c.fr.options[c.fr.j])
    IN  IF o.kind = "ok"
        THEN [c1 EXCEPT !.pc = "kb_opt_summary", !.fr.page = Some(o.val)]
        ELSE KB_next_option(c1)

\* wikipedia.summary(option, sentences=5) answered (lines 178-190).
KB_on_option_summary(c, o) ==
    LET c1 == Called(c)
        page == c.fr.page[1]
    IN  IF o.kind = "ok"
        THEN KB_finish(Accept(c1, "options", c.fr.j, c.fr.options, o.val),
                       KB_render_option(page.title, o.val, page.url))
        ELSE KB_next_option(c1)

\* KnowledgeBot.clear_memory (lines 249-251)
KB_clear_memory(c) ==
    Returned([c EXCEPT !.memory = MemoryClear(c.memory), !.mem_log = << >>,
                       !.query = "", !.fr = EmptyFrame,
                       !.gh = [EmptyGhost EXCEPT
                                  !.pre_memory = c.memory.history]],
             "clear_memory", "")

(***************************************************************************)
(* LangChainKnowledgeBot._search_wikipedia_direct (src/langchain_bot.py),  *)
(* one step per provider call, and one step in which the caller takes the  *)
(* returned text.                                                          *)
(***************************************************************************)
\* A return statement of _search_wikipedia_direct: its local variables are
\* gone, those of the caller (fr.caller, fr.topic) remain.
LC_swd_return(c, result) ==
    [c EXCEPT !.pc = "lc_return",
              !.fr = [EmptyFrame EXCEPT !.caller = c.fr.caller,
                                        !.topic = c.fr.topic,
                                        !.result = result]]

\* wikipedia.search(term): the provider returns every title it has.
Limit_unbounded(o, n) == o

\* wikipedia.search(term, results=n): the provider returns at most n titles.
Limit(o, n) == IF o.kind = "ok" THEN Ok(Take(o.val, n)) ELSE o

\* No except clause at the end of _search_wikipedia_direct: the exception
\* leaves process_query.
LC_outer_reraises(c, o) == Raised(c, "process_query", o.val)

\* The except clause that ends _search_wikipedia_direct (lines 570-571):
\* it catches every Exception.
LC_outer_handler(c, o) ==
    LC_swd_return(c, LC_error(IF o.kind = "Other" THEN o.val ELSE o.kind))

\* The function up to its first provider call (lines 371-394 and 500-502).
LC_search_wikipedia_direct(c, caller, q) ==
    LET clean_query == LC_clean_query(q)
        c1 == [c EXCEPT !.fr.caller = caller, !.fr.sq = q,
                        !.fr.clean = clean_query, !.fr.company = "",
                        !.fr.k = 0, !.fr.results = << >>, !.fr.cands = << >>,
                        !.fr.i = 0, !.fr.page = None,
                        !.gh.queries = Append(c.gh.queries, q),
                        !.gh.accepted = None, !.gh.tried = << >>,
                        !.gh.offered = None, !.gh.ranked = None,
                        !.gh.searches = 0]
    IN  IF clean_query = "" THEN LC_swd_return(c1, LC_provide_topic)
        ELSE IF contains(clean_query, "CEO of")
        THEN [c1 EXCEPT !.pc = "lc_ceo_direct_page", !.fr.k = 1,
                        !.fr.company = LC_company_name(clean_query),
                        !.gh.ceo = TRUE]
        ELSE [c1 EXCEPT !.pc = "lc_page"]

\* Line 568: nothing was accepted.
LC_give_up(c) == LC_swd_return(c, LC_not_found(c.fr.clean))

\* General lookup, lines 500-502.
LC_general(c) ==
    [NewList(c) EXCEPT !.pc = "lc_page", !.fr.k = 0, !.fr.results = << >>,
                       !.fr.cands = << >>, !.fr.i = 0, !.fr.page = None]

\* Company-page fallback, lines 486-487.
LC_company(c) ==
    [NewList(c) EXCEPT !.pc = "lc_company_page", !.fr.k = 0,
                       !.fr.results = << >>, !.fr.i = 0, !.fr.page = None]

\* -- CEO branch, direct lookup of each search attempt (lines 391-404) --
LC_ceo_direct_next(c) ==
    IF c.fr.k < Len(LC_search_attempts(c.fr.company))
    THEN [c EXCEPT !.pc = "lc_ceo_direct_page", !.fr.k = c.fr.k + 1,
                   !.fr.page = None]
    ELSE [NewList(c) EXCEPT !.pc = "lc_ceo_search", !.fr.k = 1,
                            !.fr.page = None]

LC_on_ceo_direct_page(c, o) ==
    LET c1 == Tried(c, LC_search_attempts(c.fr.company)[c.fr.k])
    IN  IF o.kind = "ok"
        THEN [c1 EXCEPT !.pc = "lc_ceo_direct_summary", !.fr.page = Some(o.val)]
        ELSE LC_ceo_direct_next(c1)

\* The direct lookup without its return statement: an accepted page does not
\* end the loop.
LC_on_ceo_direct_summary_no_return(c, o) ==
    IF o.kind = "ok" /\ LC_accept_direct(o.val)
    THEN LC_ceo_direct_next(
             Accept(Called(c), "ceo_direct", c.fr.k,
                    LC_search_attempts(c.fr.company), o.val))
    ELSE LC_ceo_direct_next(Called(c))

LC_on_ceo_direct_summary(c, o) ==
    LET page == c.fr.page[1]
    IN  IF o.kind = "ok" /\ LC_accept_direct(o.val)
        THEN LC_swd_return(
                 Accept(Called(c), "ceo_direct", c.fr.k,
                        LC_search_attempts(c.fr.company), o.val),
                 LC_render(page.title, o.val, page.url))
        ELSE LC_ceo_direct_next(Called(c))

\* -- CEO branch, search of each attempt and probing (lines 406-440) --
LC_ceo_search_next(c) ==
    IF c.fr.k < Len(LC_search_attempts(c.fr.company))
    THEN [NewList(c) EXCEPT !.pc = "lc_ceo_search", !.fr.k = c.fr.k + 1,
                            !.fr.results = << >>, !.fr.i = 0,
                            !.fr.page = None]
    ELSE [NewList(c) EXCEPT !.pc = "lc_ceo_general_search", !.fr.k = 1,
                            !.fr.results = << >>, !.fr.i = 0,
                            !.fr.page = None]

LC_on_ceo_search(c, o) ==
    IF o.kind = "ok" /\ o.val # << >>
    THEN [Called(c) EXCEPT !.pc = "lc_ceo_probe_page", !.fr.results = o.val,
                           !.fr.i = 1]
    ELSE LC_ceo_search_next(Called(c))

LC_ceo_probe_next(c) ==
    IF c.fr.i < Len(c.fr.results)
    THEN [c EXCEPT !.pc = "lc_ceo_probe_page", !.fr.i = c.fr.i + 1,
                   !.fr.page = None]
    ELSE LC_ceo_search_next(c)

LC_on_ceo_probe_page(c, o) ==
    LET c1 == Tried(c, c.fr.results[c.fr.i])
    IN  IF o.kind = "ok"
        THEN [c1 EXCEPT !.pc = "lc_ceo_probe_summary", !.fr.page = Some(o.val)]
        ELSE LC_ceo_probe_next(c1)

LC_on_ceo_probe_summary(c, o) ==
    LET page == c.fr.page[1]
    IN  IF /\ o.kind = "ok"
           /\ LC_accept_probe(LC_ceo_indicators, c.fr.company, page.title, o.val)
        THEN LC_swd_return(
                 Accept(Called(c), "ceo_probe", c.fr.i, c.fr.results, o.val),
                 LC_render(page.title, o.val, page.url))
        ELSE LC_ceo_probe_next(Called(c))

\* -- CEO branch, general searches (lines 443-483): an exception of a
\* search ends them all --
LC_ceo_general_next(c) ==
    IF c.fr.k < Len(LC_general_searches(c.fr.company))
    THEN [NewList(c) EXCEPT !.pc = "lc_ceo_general_search",
                            !.fr.k = c.fr.k + 1, !.fr.results = << >>,
                            !.fr.i = 0, !.fr.page = None]
    ELSE LC_company(c)

LC_on_ceo_general_search(c, o) ==
    IF o.kind # "ok" THEN LC_company(Called(c))
    ELSE IF o.val # << >>
    THEN [Called(c) EXCEPT !.pc = "lc_ceo_general_page", !.fr.results = o.val,
                           !.fr.i = 1]
    ELSE LC_ceo_general_next(Called(c))

LC_ceo_general_probe_next(c) ==
    IF c.fr.i < Len(c.fr.results)
    THEN [c EXCEPT !.pc = "lc_ceo_general_page", !.fr.i = c.fr.i + 1,
                   !.fr.page = None]
    ELSE LC_ceo_general_next(c)

LC_on_ceo_general_page(c, o) ==
    LET c1 == Tried(c, c.fr.results[c.fr.i])
    IN  IF o.kind = "ok"
        THEN [c1 EXCEPT !.pc = "lc_ceo_general_summary", !.fr.page = Some(o.val)]
        ELSE LC_ceo_general_probe_next(c1)

LC_on_ceo_general_summary(c, o) ==
    LET page == c.fr.page[1]
    IN  IF /\ o.kind = "ok"
           /\ LC_accept_probe(LC_general_indicators, c.fr.company, page.title,
                              o.val)
        THEN LC_swd_return(
                 Accept(Called(c), "ceo_general", c.fr.i, c.fr.results, o.val),
                 LC_render_plain(page.title, o.val, page.url))
        ELSE LC_ceo_general_probe_next(Called(c))

\* -- CEO branch, the company page (lines 486-498): only the two
\* wikipedia signals are caught here --
LC_company_handler(c, o) ==
    IF o.kind \in {"PageError", "DisambiguationError"} THEN LC_general(c)
    ELSE LC_outer_handler(c, o)

LC_on_company_page(c, o) ==
    LET c1 == Tried(c, c.fr.company)
    IN  IF o.kind = "ok"
        THEN [c1 EXCEPT !.pc = "lc_company_summary", !.fr.page = Some(o.val)]
        ELSE LC_company_handler(c1, o)

LC_on_company_summary(c, o) ==
    LET page == c.fr.page[1]
    IN  IF o.kind = "ok"
        THEN LC_swd_return(Accept(Called(c), "company", 1,
                                  << c.fr.company >>, o.val),
                           LC_render_company(page.title, o.val, page.url))
        ELSE LC_company_handler(Called(c), o)

\* -- General lookup: disambiguation options (lines 510-534) --
LC_option_matches(clean_query, option) ==
    \/ contains(lower(option), lower(clean_query))
    \/ contains(lower(clean_query), lower(option))

\* Lines 525-534: wikipedia.page(e.options[0]); without any option the
\* IndexError is caught there.
LC_first_option(c) ==
    IF c.fr.results = << >> THEN LC_give_up(c)
    ELSE [NewList(c) EXCEPT !.pc = "lc_first_option_page",
                            !.fr.cands = << >>, !.fr.i = 0, !.fr.page = None]

LC_start_options(c, options) ==
    LET Matches(option) == LC_option_matches(c.fr.clean, option)
        matching == SelectSeq(Take(options, 5), Matches)
        c1 == [NewList(Offered(c, options)) EXCEPT
                  !.fr.results = options, !.fr.page = None]
    IN  IF matching # << >>
        THEN [c1 EXCEPT !.pc = "lc_option_page", !.fr.cands = matching,
                        !.fr.i = 1]
        ELSE LC_first_option(c1)

LC_option_next(c) ==
    IF c.fr.i < Len(c.fr.cands)
    THEN [c EXCEPT !.pc = "lc_option_page", !.fr.i = c.fr.i + 1,
                   !.fr.page = None]
    ELSE LC_first_option(c)

LC_on_option_page(c, o) ==
    LET c1 == Tried(c, c.fr.cands[c.fr.i])
    IN  IF o.kind = "ok"
        THEN [c1 EXCEPT !.pc = "lc_option_summary", !.fr.page = Some(o.val)]
        ELSE LC_option_next(c1)

LC_on_option_summary(c, o) ==
    LET page == c.fr.page[1]
    IN  IF o.kind = "ok"
        THEN LC_swd_return(
                 Accept(Called(c), "option", c.fr.i, c.fr.cands, o.val),
                 LC_render_option(page.title, o.val, page.url))
        ELSE LC_option_next(Called(c))

LC_on_first_option_page(c, o) ==
    LET c1 == Tried(c, c.fr.results[1])
    IN  IF o.kind = "ok"
        THEN [c1 EXCEPT !.pc = "lc_first_option_summary", !.fr.page = Some(o.val)]
        ELSE LC_give_up(c1)

LC_on_first_option_summary(c, o) ==
    LET page == c.fr.page[1]
    IN  IF o.kind = "ok"
        THEN LC_swd_return(
                 Accept(Called(c), "first_option", 1, c.fr.results, o.val),
                 LC_render_plain(page.title, o.val, page.url))
        ELSE LC_give_up(Called(c))

\* -- General lookup: ranked search (lines 536-566) --
LC_result_matches(clean_query, result) ==
    contains(lower(result), lower(clean_query))

\* Lines 553-563: wikipedia.page(search_results[0])
LC_first_result(c) ==
    IF c.fr.results = << >> THEN LC_give_up(c)
    ELSE [NewList(c) EXCEPT !.pc = "lc_first_result_page",
                            !.fr.cands = << >>, !.fr.i = 0, !.fr.page = None]

LC_on_search(c, o) ==
    LET Matches(result) == LC_result_matches(c.fr.clean, result)
        matching == SelectSeq(Take(o.val, 5), Matches)
    IN  IF o.kind # "ok" THEN LC_give_up(Searched(c, o))
        ELSE IF matching # << >>
        THEN [Searched(c, o) EXCEPT !.pc = "lc_result_page",
                                    !.fr.results = o.val,
                                    !.fr.cands = matching, !.fr.i = 1]
        ELSE LC_first_result([Searched(c, o) EXCEPT !.fr.results = o.val])

LC_result_next(c) ==
    IF c.fr.i < Len(c.fr.cands)
    THEN [c EXCEPT !.pc = "lc_result_page", !.fr.i = c.fr.i + 1,
                   !.fr.page = None]
    ELSE LC_first_result(c)

LC_on_result_page(c, o) ==
    LET c1 == Tried(c, c.fr.cands[c.fr.i])
    IN  IF o.kind = "ok"
        THEN [c1 EXCEPT !.pc = "lc_result_summary", !.fr.page = Some(o.val)]
        ELSE LC_result_next(c1)

LC_on_result_summary(c, o) ==
    LET page == c.fr.page[1]
    IN  IF o.kind = "ok"
        THEN LC_swd_return(
                 Accept(Called(c), "result", c.fr.i, c.fr.cands, o.val),
                 LC_render(page.title, o.val, page.url))
        ELSE LC_result_next(Called(c))

LC_on_first_result_page(c, o) ==
    LET c1 == Tried(c, c.fr.results[1])
    IN  IF o.kind = "ok"
        THEN [c1 EXCEPT !.pc = "lc_first_result_summary", !.fr.page = Some(o.val)]
        ELSE LC_give_up(c1)

LC_on_first_result_summary(c, o) ==
    LET page == c.fr.page[1]
    IN  IF o.kind = "ok"
        THEN LC_swd_return(
                 Accept(Called(c), "first_result", 1, c.fr.results, o.val),
                 LC_render(page.title, o.val, page.url))
        ELSE LC_give_up(Called(c))

\* -- General lookup: the direct fetch (lines 500-510 and 536): the two
\* wikipedia signals have their own clause, the rest goes to the outer one --
LC_general_handler(c, o) ==
    IF o.kind = "DisambiguationError" THEN LC_start_options(c, o.val)
    ELSE IF o.kind = "PageError"
    THEN [NewList(c) EXCEPT !.pc = "lc_search", !.fr.page = None]
    ELSE LC_outer_handler(c, o)

LC_on_page(c, o) ==
    LET c1 == Tried(c, c.fr.clean)
    IN  IF o.kind = "ok"
        THEN [c1 EXCEPT !.pc = "lc_summary", !.fr.page = Some(o.val)]
        ELSE LC_general_handler(c1, o)

LC_on_summary(c, o) ==
    LET page == c.fr.page[1]
    IN  IF o.kind = "ok"
        THEN LC_swd_return(Accept(Called(c), "direct", 1, << c.fr.clean >>,
                                  o.val),
                           LC_render_plain(page.title, o.val, page.url))
        ELSE LC_general_handler(Called(c), o)

(***************************************************************************)
(* LangChainKnowledgeBot._extract_education_info and process_query.        *)
(***************************************************************************)
\* The length of the run of characters of S that starts at position a.
RECURSIVE RunOf(_, _, _)
RunOf(s, a, S) ==
    IF a <= Len(s) /\ Ch(s, a) \in S THEN 1 + RunOf(s, a + 1, S) ELSE 0

\* re.split(r'[.!?]+', s)
RECURSIVE split_sentences(_)
split_sentences(s) ==
    LET ends == {i \in 1..Len(s) : Ch(s, i) \in {".", "!", "?"}}
        a == MinOf(ends)
    IN  IF ends = {} THEN << s >>
        ELSE << SubSeq(s, 1, a - 1) >>
             \o split_sentences(DropFirst(s, a + RunOf(s, a, {".", "!", "?"}) - 1))

LC_education_keywords ==
    {"education", "university", "college", "school", "graduated", "degree",
     "bachelor", "master", "phd", "studied", "attended", "alumni", "mba"}

\* The list of the except branch (lines 300-303) has no "mba".
LC_education_keywords_fallback == LC_education_keywords \ {"mba"}

\* The stripped, non-empty sentences that contain a keyword, in order.
LC_education_sentences(text, keywords) ==
    LET pieces == split_sentences(text)
        stripped == [i \in 1..Len(pieces) |-> strip(pieces[i])]
        Keep(sentence) == sentence # "" /\ ContainsAny(lower(sentence), keywords)
    IN  SelectSeq(stripped, Keep)

\* Lines 282-294 without lines 288-289: no ellipsis after the sentences.
LC_education_response_no_ellipsis(entity_name, content, url) ==
    LET education_sentences == LC_education_sentences(content, LC_education_keywords)
    IN  IF education_sentences # << >>
        THEN "**" \o entity_name \o " - Education**\n\n"
             \o JoinWith(". ", Take(education_sentences, 4))
             \o "\n\n [Read more on Wikipedia](" \o url \o ")"
        ELSE "**" \o entity_name \o " - Education**\n\nI couldn't find specific education details in the Wikipedia article. The biography mentions his career but not detailed educational background.\n\n#### [Read full biography](" \o url \o ")"

\* Lines 282-294.  The four characters before "[Read full biography]",
\* which are not ASCII, are written "####".
LC_education_response(entity_name, content, url) ==
    LET education_sentences == LC_education_sentences(content, LC_education_keywords)
    IN  IF education_sentences # << >>
        THEN "**" \o entity_name \o " - Education**\n\n"
             \o JoinWith(". ", Take(education_sentences, 4))
             \o (IF Len(education_sentences) > 4 THEN "..." ELSE "")
             \o "\n\n [Read more on Wikipedia](" \o url \o ")"
        ELSE "**" \o entity_name \o " - Education**\n\nI couldn't find specific education details in the Wikipedia article. The biography mentions his career but not detailed educational background.\n\n#### [Read full biography](" \o url \o ")"

\* Lines 296-316, the except branch.  "####" as above.
LC_education_fallback(entity_name, main_page_response) ==
    LET education_sentences ==
            LC_education_sentences(main_page_response,
                                   LC_education_keywords_fallback)
    IN  IF education_sentences # << >>
        THEN "**" \o entity_name \o " - Education**\n\n"
             \o JoinWith(". ", Take(education_sentences, 3))
        ELSE "**" \o entity_name \o "**\n\n" \o main_page_response
             \o "\n\n#### Education details may be found in the full biography above."

\* Truth value of an Optional[str]
Truthy(v) == v # None /\ v[1] # ""

\* memory.save_context and return (lines 611-612, 632-633, 664-666).
LC_finish(c, response) ==
    Returned([c EXCEPT !.lc_history =
                 SimpleMemory_save_context(c.lc_history, c.query, response)],
             "process_query", response)

\* Lines 635-654: the query is searched as a new one.
LC_fresh(c) ==
    LET entity == LC_extract_entity(c.query)
        c1 == IF Truthy(entity) /\ ~LC_is_follow_up(c.query)
              THEN [c EXCEPT !.last_entity = None]
              ELSE c
    IN  LC_search_wikipedia_direct(c1, "fresh", LC_search_query(c.query, entity))

\* Lines 656-666 without the elif of line 660: when the response yields no
\* entity the topic is erased.
LC_fresh_return_erases(c, response) ==
    LET extracted_entity == LC_extract_entity_from_response(response)
        c1 == IF Truthy(extracted_entity)
              THEN [c EXCEPT !.last_entity = extracted_entity]
              ELSE [c EXCEPT !.last_entity = None]
    IN  LC_finish([c1 EXCEPT !.gh.mined = TRUE], response)

\* Lines 656-666: last_entity is set from the response, else from the query.
LC_fresh_return(c, response) ==
    LET entity == LC_extract_entity(c.query)
        extracted_entity == LC_extract_entity_from_response(response)
        c1 == IF Truthy(extracted_entity)
              THEN [c EXCEPT !.last_entity = extracted_entity]
              ELSE IF Truthy(entity) THEN [c EXCEPT !.last_entity = entity]
              ELSE c
    IN  LC_finish([c1 EXCEPT !.gh.mined = TRUE], response)

\* Lines 629-633: what process_query does with the text of _handle_follow_up.
LC_follow_up_return(c, follow_up_response) ==
    IF follow_up_response # "" /\ ~contains(follow_up_response, "Could not find")
    THEN LC_finish(c, follow_up_response)
    ELSE LC_fresh(c)

\* _extract_education_info up to its provider call (lines 257-264).
LC_extract_education_info(c, main_page_response) ==
    [c EXCEPT !.pc = "lc_education_page",
              !.fr = [EmptyFrame EXCEPT !.topic = c.fr.topic,
                                        !.main = main_page_response]]

\* wikipedia.page(entity_name, auto_suggest=False) answered: any Exception
\* leads to the summary-based branch.
LC_on_education_page(c, o) ==
    LC_follow_up_return(
        Called(c),
        IF o.kind = "ok"
        THEN LC_education_response(c.fr.topic, o.val.content, o.val.url)
        ELSE LC_education_fallback(c.fr.topic, c.fr.main))

\* _handle_follow_up up to its first provider call (lines 207-255).
LC_handle_follow_up(c) ==
    LET last_topic ==
            IF Truthy(c.last_entity) THEN c.last_entity[1]
            ELSE LC_extract_last_topic_from_history(c.lc_history)
    IN  IF last_topic = "" THEN LC_follow_up_return(c, "")
        ELSE LC_search_wikipedia_direct(
                 [c EXCEPT !.fr.topic = last_topic], "follow_up",
                 LC_follow_up_query(last_topic, c.query))

\* What the caller of _search_wikipedia_direct does with the text returned:
\* _handle_follow_up (lines 227-255) or process_query (lines 654-666).
LC_on_return(c) ==
    LET result == c.fr.result
    IN  IF c.fr.caller = "follow_up"
        THEN IF LC_aspect(c.query) # "education"
             THEN LC_follow_up_return(c, result)
             ELSE IF result # "" /\ ~contains(result, "Could not find")
             THEN IF /\ contains(lower(result), lower(c.fr.topic))
                     /\ ~contains(lower(result), "education")
                  THEN LC_extract_education_info(c, result)
                  ELSE LC_follow_up_return(c, result)
             ELSE LC_search_wikipedia_direct(c, "education_main", c.fr.topic)
        ELSE IF c.fr.caller = "education_main"
        THEN LC_extract_education_info(c, result)
        ELSE LC_fresh_return(c, result)

\* process_query up to its first provider call (lines 592-629).
LC_process_query(c, text) ==
    LET q == strip(text)
        c0 == [c EXCEPT !.query = q, !.fr = EmptyFrame, !.out = NoOut,
                        !.gh = [EmptyGhost EXCEPT
                                   !.pre_entity = c.last_entity,
                                   !.pre_history = c.lc_history]]
    IN  IF q = "" THEN Returned(c0, "process_query", LC_ask_a_question)
        ELSE IF lower(q) \in {"hi", "hello", "hey"}
        THEN LC_finish(c0, LC_handle_greeting)
        ELSE IF lower(q) \in {"help", "?"}
        THEN LC_finish(c0, LC_get_help)
        ELSE IF contains(lower(q), "thank")
        THEN LC_finish(c0, LC_handle_thanks)
        ELSE IF LC_is_follow_up(q) THEN LC_handle_follow_up(c0)
        ELSE LC_fresh(c0)

\* A clear_memory that forgets the history and keeps last_entity.
LC_clear_history_only(c) ==
    Returned([c EXCEPT !.lc_history = "",
                       !.query = "", !.fr = EmptyFrame,
                       !.gh = [EmptyGhost EXCEPT
                                  !.pre_entity = c.last_entity,
                                  !.pre_history = c.lc_history]],
             "clear_memory", "")

\* LangChainKnowledgeBot.clear_memory (lines 715-720)
LC_clear_memory(c) ==
    Returned([c EXCEPT !.lc_history = "", !.last_entity = None,
                       !.query = "", !.fr = EmptyFrame,
                       !.gh = [EmptyGhost EXCEPT
                                  !.pre_entity = c.last_entity,
                                  !.pre_history = c.lc_history]],
             "clear_memory", "")

(***************************************************************************)
(* Actions.                                                                *)
(***************************************************************************)
Idle(class) ==
    /\ impl = class
    /\ memory = ConversationMemory(DefaultMaxHistory)
    /\ mem_log = << >>
    /\ lc_history = ""
    /\ last_entity = None
    /\ pc = "idle"
    /\ query = ""
    /\ fr = EmptyFrame
    /\ out = NoOut
    /\ gh = EmptyGhost
    /\ turns = 0
    /\ peers = NoPeers

\* A bot of either class, as constructed.
Init == Idle("KnowledgeBot") \/ Idle("LangChainKnowledgeBot")

\* The user sends a text to KnowledgeBot.process_query.
KB_Ask ==
    /\ impl = "KnowledgeBot"
    /\ pc = "idle"
    /\ turns < MaxTurns
    /\ \E text \in Utterances : Becomes(KB_process_query(Cfg, text))
    /\ turns' = turns + 1
    /\ UNCHANGED << impl, peers >>

KB_Search ==
    /\ pc = "kb_search"
    /\ \E o \in SearchOutcomes : Becomes(KB_on_search(Cfg, Limit(o, 10)))
    /\ UNCHANGED << impl, turns, peers >>

KB_Page ==
    /\ pc = "kb_page"
    /\ \E o \in PageOutcomes : Becomes(KB_on_page(Cfg, o))
    /\ UNCHANGED << impl, turns, peers >>

KB_Summary ==
    /\ pc = "kb_summary"
    /\ \E o \in SummaryOutcomes : Becomes(KB_on_summary(Cfg, o))
    /\ UNCHANGED << impl, turns, peers >>

KB_OptionPage ==
    /\ pc = "kb_opt_page"
    /\ \E o \in PageOutcomes : Becomes(KB_on_option_page(Cfg, o))
    /\ UNCHANGED << impl, turns, peers >>

KB_OptionSummary ==
    /\ pc = "kb_opt_summary"
    /\ \E o \in SummaryOutcomes : Becomes(KB_on_option_summary(Cfg, o))
    /\ UNCHANGED << impl, turns, peers >>

\* The user clears the conversation (between two calls).
KB_ClearMemory ==
    /\ impl = "KnowledgeBot"
    /\ pc = "idle"
    /\ Becomes(KB_clear_memory(Cfg))
    /\ UNCHANGED << impl, turns, peers >>

\* The call in progress hands its result to the caller.
Return ==
    /\ pc = "done"
    /\ pc' = "idle"
    /\ query' = ""
    /\ fr' = EmptyFrame
    /\ out' = NoOut
    /\ gh' = EmptyGhost
    /\ UNCHANGED << impl, memory, mem_log, lc_history, last_entity, turns,
                    peers >>

KB_Next ==
    \/ KB_Ask
    \/ KB_Search
    \/ KB_Page
    \/ KB_Summary
    \/ KB_OptionPage
    \/ KB_OptionSummary
    \/ KB_ClearMemory
    \/ Return

SpecKB == Idle("KnowledgeBot") /\ [][KB_Next]_vars

(***************************************************************************)
(* LangChainKnowledgeBot: one action per provider call of langchain_bot.py *)
(***************************************************************************)
\* The user sends a text to LangChainKnowledgeBot.process_query.
LC_Ask ==
    /\ impl = "LangChainKnowledgeBot"
    /\ pc = "idle"
    /\ turns < MaxTurns
    /\ \E text \in Utterances : Becomes(LC_process_query(Cfg, text))
    /\ turns' = turns + 1
    /\ UNCHANGED << impl, peers >>

\* The provider answers the call of line 394.
LC_CeoDirectPage ==
    /\ pc = "lc_ceo_direct_page"
    /\ \E o \in PageOutcomes : Becomes(LC_on_ceo_direct_page(Cfg, o))
    /\ UNCHANGED << impl, turns, peers >>

\* The provider answers the call of line 395.
LC_CeoDirectSummary ==
    /\ pc = "lc_ceo_direct_summary"
    /\ \E o \in SummaryOutcomes : Becomes(LC_on_ceo_direct_summary(Cfg, o))
    /\ UNCHANGED << impl, turns, peers >>

\* The provider answers the call of line 409.
LC_CeoSearch ==
    /\ pc = "lc_ceo_search"
    /\ \E o \in SearchOutcomes : Becomes(LC_on_ceo_search(Cfg, Limit(o, 10)))
    /\ UNCHANGED << impl, turns, peers >>

\* The provider answers the call of line 412.
LC_CeoProbePage ==
    /\ pc = "lc_ceo_probe_page"
    /\ \E o \in PageOutcomes : Becomes(LC_on_ceo_probe_page(Cfg, o))
    /\ UNCHANGED << impl, turns, peers >>

\* The provider answers the call of line 413.
LC_CeoProbeSummary ==
    /\ pc = "lc_ceo_probe_summary"
    /\ \E o \in SummaryOutcomes : Becomes(LC_on_ceo_probe_summary(Cfg, o))
    /\ UNCHANGED << impl, turns, peers >>

\* The provider answers the call of line 453.
LC_CeoGeneralSearch ==
    /\ pc = "lc_ceo_general_search"
    /\ \E o \in SearchOutcomes : Becomes(LC_on_ceo_general_search(Cfg, Limit(o, 5)))
    /\ UNCHANGED << impl, turns, peers >>

\* The provider answers the call of line 456.
LC_CeoGeneralPage ==
    /\ pc = "lc_ceo_general_page"
    /\ \E o \in PageOutcomes : Becomes(LC_on_ceo_general_page(Cfg, o))
    /\ UNCHANGED << impl, turns, peers >>

\* The provider answers the call of line 457.
LC_CeoGeneralSummary ==
    /\ pc = "lc_ceo_general_summary"
    /\ \E o \in SummaryOutcomes : Becomes(LC_on_ceo_general_summary(Cfg, o))
    /\ UNCHANGED << impl, turns, peers >>

\* The provider answers the call of line 487.
LC_CompanyPage ==
    /\ pc = "lc_company_page"
    /\ \E o \in PageOutcomes : Becomes(LC_on_company_page(Cfg, o))
    /\ UNCHANGED << impl, turns, peers >>

\* The provider answers the call of line 488.
LC_CompanySummary ==
    /\ pc = "lc_company_summary"
    /\ \E o \in SummaryOutcomes : Becomes(LC_on_company_summary(Cfg, o))
    /\ UNCHANGED << impl, turns, peers >>

\* The provider answers the call of line 502.
LC_Page ==
    /\ pc = "lc_page"
    /\ \E o \in PageOutcomes : Becomes(LC_on_page(Cfg, o))
    /\ UNCHANGED << impl, turns, peers >>

\* The provider answers the call of line 503.
LC_Summary ==
    /\ pc = "lc_summary"
    /\ \E o \in SummaryOutcomes : Becomes(LC_on_summary(Cfg, o))
    /\ UNCHANGED << impl, turns, peers >>

\* The provider answers the call of line 514.
LC_OptionPage ==
    /\ pc = "lc_option_page"
    /\ \E o \in PageOutcomes : Becomes(LC_on_option_page(Cfg, o))
    /\ UNCHANGED << impl, turns, peers >>

\* The provider answers the call of line 515.
LC_OptionSummary ==
    /\ pc = "lc_option_summary"
    /\ \E o \in SummaryOutcomes : Becomes(LC_on_option_summary(Cfg, o))
    /\ UNCHANGED << impl, turns, peers >>

\* The provider answers the call of line 526.
LC_FirstOptionPage ==
    /\ pc = "lc_first_option_page"
    /\ \E o \in PageOutcomes : Becomes(LC_on_first_option_page(Cfg, o))
    /\ UNCHANGED << impl, turns, peers >>

\* The provider answers the call of line 527.
LC_FirstOptionSummary ==
    /\ pc = "lc_first_option_summary"
    /\ \E o \in SummaryOutcomes : Becomes(LC_on_first_option_summary(Cfg, o))
    /\ UNCHANGED << impl, turns, peers >>

\* The provider answers the call of line 538.
LC_Search ==
    /\ pc = "lc_search"
    /\ \E o \in SearchOutcomes : Becomes(LC_on_search(Cfg, Limit(o, 10)))
    /\ UNCHANGED << impl, turns, peers >>

\* The provider answers the call of line 543.
LC_ResultPage ==
    /\ pc = "lc_result_page"
    /\ \E o \in PageOutcomes : Becomes(LC_on_result_page(Cfg, o))
    /\ UNCHANGED << impl, turns, peers >>

\* The provider answers the call of line 544.
LC_ResultSummary ==
    /\ pc = "lc_result_summary"
    /\ \E o \in SummaryOutcomes : Becomes(LC_on_result_summary(Cfg, o))
    /\ UNCHANGED << impl, turns, peers >>

\* The provider answers the call of line 555.
LC_FirstResultPage ==
    /\ pc = "lc_first_result_page"
    /\ \E o \in PageOutcomes : Becomes(LC_on_first_result_page(Cfg, o))
    /\ UNCHANGED << impl, turns, peers >>

\* The provider answers the call of line 556.
LC_FirstResultSummary ==
    /\ pc = "lc_first_result_summary"
    /\ \E o \in SummaryOutcomes : Becomes(LC_on_first_result_summary(Cfg, o))
    /\ UNCHANGED << impl, turns, peers >>

\* The provider answers the call of lines 264-265.
LC_EducationPage ==
    /\ pc = "lc_education_page"
    /\ \E o \in ContentPageOutcomes : Becomes(LC_on_education_page(Cfg, o))
    /\ UNCHANGED << impl, turns, peers >>

\* The user clears the conversation (between two calls).
LC_ClearMemory ==
    /\ impl = "LangChainKnowledgeBot"
    /\ pc = "idle"
    /\ Becomes(LC_clear_memory(Cfg))
    /\ UNCHANGED << impl, turns, peers >>

\* _search_wikipedia_direct has returned: its caller goes on.
LC_Resume ==
    /\ pc = "lc_return"
    /\ Becomes(LC_on_return(Cfg))
    /\ UNCHANGED << impl, turns, peers >>

LC_Next ==
    \/ LC_Ask
    \/ LC_Resume
    \/ LC_CeoDirectPage
    \/ LC_CeoDirectSummary
    \/ LC_CeoSearch
    \/ LC_CeoProbePage
    \/ LC_CeoProbeSummary
    \/ LC_CeoGeneralSearch
    \/ LC_CeoGeneralPage
    \/ LC_CeoGeneralSummary
    \/ LC_CompanyPage
    \/ LC_CompanySummary
    \/ LC_Page
    \/ LC_Summary
    \/ LC_OptionPage
    \/ LC_OptionSummary
    \/ LC_FirstOptionPage
    \/ LC_FirstOptionSummary
    \/ LC_Search
    \/ LC_ResultPage
    \/ LC_ResultSummary
    \/ LC_FirstResultPage
    \/ LC_FirstResultSummary
    \/ LC_EducationPage
    \/ LC_ClearMemory
    \/ Return

SpecLC == Idle("LangChainKnowledgeBot") /\ [][LC_Next]_vars

\* Either bot.
Next ==
    \/ KB_Ask
    \/ KB_Search
    \/ KB_Page
    \/ KB_Summary
    \/ KB_OptionPage
    \/ KB_OptionSummary
    \/ KB_ClearMemory
    \/ LC_Ask
    \/ LC_Resume
    \/ LC_CeoDirectPage
    \/ LC_CeoDirectSummary
    \/ LC_CeoSearch
    \/ LC_CeoProbePage
    \/ LC_CeoProbeSummary
    \/ LC_CeoGeneralSearch
    \/ LC_CeoGeneralPage
    \/ LC_CeoGeneralSummary
    \/ LC_CompanyPage
    \/ LC_CompanySummary
    \/ LC_Page
    \/ LC_Summary
    \/ LC_OptionPage
    \/ LC_OptionSummary
    \/ LC_FirstOptionPage
    \/ LC_FirstOptionSummary
    \/ LC_Search
    \/ LC_ResultPage
    \/ LC_ResultSummary
    \/ LC_FirstResultPage
    \/ LC_FirstResultSummary
    \/ LC_EducationPage
    \/ LC_ClearMemory
    \/ Return

Spec == Init /\ [][Next]_vars

(***************************************************************************)
(* ConversationMemory on its own, constructed with any capacity.           *)
(***************************************************************************)
MemInit ==
    /\ impl = "ConversationMemory"
    /\ \E max_history \in 1..MaxCap : memory = ConversationMemory(max_history)
    /\ mem_log = << >>
    /\ lc_history = ""
    /\ last_entity = None
    /\ pc = "idle"
    /\ query = ""
    /\ fr = EmptyFrame
    /\ out = NoOut
    /\ gh = EmptyGhost
    /\ turns = 0
    /\ peers = NoPeers

Mem_save_context ==
    /\ Len(mem_log) < memory.maxlen + MemExtra
    /\ \E u \in MemoryInputs, b \in MemoryResponses :
          /\ memory' = save_context(memory, u, b)
          /\ mem_log' = Append(mem_log, [user |-> u, bot |-> b])
    /\ out' = [op |-> "save_context", kind |-> "returned", response |-> ""]
    /\ UNCHANGED << impl, lc_history, last_entity, pc, query, fr, gh, turns,
                    peers >>

Mem_clear ==
    /\ memory' = MemoryClear(memory)
    /\ mem_log' = << >>
    /\ out' = [op |-> "clear", kind |-> "returned", response |-> ""]
    /\ UNCHANGED << impl, lc_history, last_entity, pc, query, fr, gh, turns,
                    peers >>

MemNext == Mem_save_context \/ Mem_clear

SpecMem == MemInit /\ [][MemNext]_vars

(***************************************************************************)
(* The text functions on their own: _clean_query of both bots,             *)
(* _extract_entity, _is_follow_up and the search_query of process_query,   *)
(* applied to a text.                                                      *)
(***************************************************************************)
\* How a text can begin, what it can be about and how it can end.
TextStarts ==
    {"", "Who is ", "What is ", "Tell me about ", "Where was ",
     "  who is what is ", "Explain "}

TextBodies ==
    {"the CEO of Google", "quantum computing", "he born", "Marie Curie",
     "the capital of France", "the lord of the rings", "capitalism",
     "an apple", "his background", ""}

TextEnds == {"", "?", " "}

TextInputs == {a \o b \o e : a \in TextStarts, b \in TextBodies, e \in TextEnds}

TextInit ==
    /\ impl = "Text"
    /\ query \in TextInputs
    /\ memory = ConversationMemory(DefaultMaxHistory)
    /\ mem_log = << >>
    /\ lc_history = ""
    /\ last_entity = None
    /\ pc = "idle"
    /\ fr = EmptyFrame
    /\ out = NoOut
    /\ gh = EmptyGhost
    /\ turns = 0
    /\ peers = NoPeers

\* The function op was applied to the text and returned result.
Applied(op, result) ==
    /\ out' = [op |-> op, kind |-> "returned", response |-> result]
    /\ UNCHANGED << impl, memory, mem_log, lc_history, last_entity, pc, query,
                    fr, gh, turns, peers >>

Text_KB_clean_query == Applied("KnowledgeBot._clean_query", KB_clean_query(query))

Text_LC_clean_query ==
    Applied("LangChainKnowledgeBot._clean_query", LC_clean_query(query))

Text_extract_entity == Applied("_extract_entity", LC_extract_entity(query))

Text_is_follow_up == Applied("_is_follow_up", LC_is_follow_up(query))

\* Lines 625 and 640-651 of process_query.
Text_search_query ==
    Applied("search_query", LC_search_query(query, LC_extract_entity(query)))

TextNext ==
    \/ Text_KB_clean_query
    \/ Text_LC_clean_query
    \/ Text_extract_entity
    \/ Text_is_follow_up
    \/ Text_search_query

SpecText == TextInit /\ [][TextNext]_vars

(***************************************************************************)
(* _extract_education_info on its own: any topic, any text of the main     *)
(* page, and any answer of its one provider call.                          *)
(***************************************************************************)
EduSummaries ==
    {"Sam Altman (born 1985) is the CEO of OpenAI.",
     "He studied at Stanford. He is rich! He has a degree.",
     "He has an MBA. He studied at Stanford.",
     "He studied at Stanford. He left college! He has a degree. He attended lectures."}

EduTopics == {"Sam Altman", "OpenAI", "Marie Curie"}

\* What _search_wikipedia_direct can have returned for the topic.
EduMainResponses ==
    {LC_render_plain("Sam Altman", x, UrlOf("Sam Altman")) : x \in EduSummaries}
    \cup {LC_not_found("Sam Altman")}

EduContents ==
    Contents
    \cup {"He attended Stanford.",
          "He is rich. He has a PhD? He is a master of chess!",
          "He attended Stanford. He is rich. He studied there! He left college. No degree?",
          "He attended Stanford. He studied there! He is rich. He left college. No degree? He founded a school."}

EduPageOutcomes ==
    {Ok([title |-> "Sam Altman", url |-> UrlOf("Sam Altman"), content |-> x]) :
        x \in EduContents} \cup Exceptions

EduInit ==
    /\ impl = "Education"
    /\ query = ""
    /\ memory = ConversationMemory(DefaultMaxHistory)
    /\ mem_log = << >>
    /\ lc_history = ""
    /\ last_entity = None
    /\ pc = "lc_education_page"
    /\ \E entity_name \in EduTopics, main_page_response \in EduMainResponses :
          fr = [EmptyFrame EXCEPT !.topic = entity_name,
                                  !.main = main_page_response]
    /\ out = NoOut
    /\ gh = EmptyGhost
    /\ turns = 0
    /\ peers = NoPeers

\* wikipedia.page(entity_name, auto_suggest=False) answers and the text of
\* lines 282-294 or of lines 296-316 is returned.
Edu_extract ==
    /\ pc = "lc_education_page"
    /\ \E o \in EduPageOutcomes :
          /\ fr' = [fr EXCEPT !.page = IF o.kind = "ok" THEN Some(o.val)
                                       ELSE None]
          /\ out' = [op |-> "_extract_education_info", kind |-> "returned",
                     response |->
                         IF o.kind = "ok"
                         THEN LC_education_response(fr.topic, o.val.content,
                                                    o.val.url)
                         ELSE LC_education_fallback(fr.topic, fr.main)]
    /\ pc' = "done"
    /\ gh' = [gh EXCEPT !.called = TRUE]
    /\ UNCHANGED << impl, memory, mem_log, lc_history, last_entity, query,
                    turns, peers >>

SpecEdu == EduInit /\ [][Edu_extract]_vars

(***************************************************************************)
(* Two bots in one process.  A bot holds a reference to its memory object; *)
(* the objects live in the heap.  Calls do not overlap: the bot whose call *)
(* runs is the active one, its memory object and its last_entity stand in  *)
(* the variables above, and between two calls the other bot may be called. *)
(***************************************************************************)
Classes == {"KnowledgeBot", "LangChainKnowledgeBot"}

TwoUtterances == {"Hello", "where was he born?"}

MaxTwoTurns == 2

\* The memory object of a bot: ConversationMemory() of KnowledgeBot,
\* SimpleMemory() of LangChainKnowledgeBot.
MemoryObject(m, log, history) ==
    [memory |-> m, mem_log |-> log, lc_history |-> history]

FreshMemory == MemoryObject(ConversationMemory(DefaultMaxHistory), << >>, "")

\* A constructor that hands every bot the memory object made first, as a
\* class attribute or a module-level object would.
Construct_shared(heap, class) ==
    IF heap = << >> THEN [ref |-> 1, heap |-> << FreshMemory >>]
    ELSE [ref |-> 1, heap |-> heap]

\* __init__ of either class: self.memory is a new object of the heap.
Construct(heap, class) ==
    [ref |-> Len(heap) + 1, heap |-> Append(heap, FreshMemory)]

\* What a bot is between two calls: its memory object and its last_entity.
BotState(object, entity) == [object |-> object, last_entity |-> entity]

TwoInit ==
    /\ pc = "idle"
    /\ query = ""
    /\ fr = EmptyFrame
    /\ out = NoOut
    /\ gh = EmptyGhost
    /\ turns = 0
    /\ memory = FreshMemory.memory
    /\ mem_log = FreshMemory.mem_log
    /\ lc_history = FreshMemory.lc_history
    /\ last_entity = None
    /\ \E c1 \in Classes, c2 \in Classes :
          LET b1 == Construct(<< >>, c1)
              b2 == Construct(b1.heap, c2)
          IN  /\ impl = c1
              /\ peers = [active |-> 1, class |-> << c1, c2 >>,
                          ref |-> << b1.ref, b2.ref >>, heap |-> b2.heap,
                          last_entity |-> << None, None >>,
                          owned |-> << BotState(FreshMemory, None),
                                       BotState(FreshMemory, None) >>]

\* The user of the active bot sends a text to process_query.
Two_Ask ==
    /\ pc = "idle"
    /\ turns < MaxTwoTurns
    /\ \E text \in TwoUtterances :
          Becomes(IF impl = "KnowledgeBot" THEN KB_process_query(Cfg, text)
                  ELSE LC_process_query(Cfg, text))
    /\ turns' = turns + 1
    /\ UNCHANGED << impl, peers >>

\* Between two calls the other bot becomes the active one: the memory object
\* of the bot that was active is where its reference points, and the other
\* bot finds whatever its own reference points to.
Two_Switch ==
    /\ pc = "idle"
    /\ LET a == peers.active
           b == 3 - a
           object == MemoryObject(memory, mem_log, lc_history)
           heap == [peers.heap EXCEPT ![peers.ref[a]] = object]
       IN  /\ peers' = [peers EXCEPT
                           !.active = b, !.heap = heap,
                           !.last_entity[a] = last_entity,
                           !.owned[a] = BotState(object, last_entity)]
           /\ impl' = peers.class[b]
           /\ memory' = heap[peers.ref[b]].memory
           /\ mem_log' = heap[peers.ref[b]].mem_log
           /\ lc_history' = heap[peers.ref[b]].lc_history
           /\ last_entity' = peers.last_entity[b]
    /\ UNCHANGED << pc, query, fr, out, gh, turns >>

\* The steps of the two bots: the provider calls that the utterances of
\* TwoUtterances lead to, and clear_memory.
TwoNext ==
    \/ Two_Ask
    \/ Two_Switch
    \/ KB_Search
    \/ KB_Page
    \/ KB_Summary
    \/ KB_OptionPage
    \/ KB_OptionSummary
    \/ KB_ClearMemory
    \/ LC_Resume
    \/ LC_Page
    \/ LC_Summary
    \/ LC_OptionPage
    \/ LC_OptionSummary
    \/ LC_FirstOptionPage
    \/ LC_FirstOptionSummary
    \/ LC_Search
    \/ LC_FirstResultPage
    \/ LC_FirstResultSummary
    \/ LC_ClearMemory
    \/ Return

SpecTwo == TwoInit /\ [][TwoNext]_vars

(***************************************************************************)
(* A long conversation with one bot: more turns than the memory of         *)
(* KnowledgeBot holds.  The texts are such that no provider call is made.  *)
(***************************************************************************)
LongUtterances == {"who is", "what is"}

MaxLongTurns == 12

Long_Ask ==
    /\ pc = "idle"
    /\ turns < MaxLongTurns
    /\ \E text \in LongUtterances :
          Becomes(IF impl = "KnowledgeBot" THEN KB_process_query(Cfg, text)
                  ELSE LC_process_query(Cfg, text))
    /\ turns' = turns + 1
    /\ UNCHANGED << impl, peers >>

LongNext ==
    \/ Long_Ask
    \/ LC_Resume
    \/ Return

SpecLong == Init /\ [][LongNext]_vars

(***************************************************************************)
(* One process_query call of KnowledgeBot.  At each of its provider calls   *)
(* the action of that call is enabled: the provider answers every call.    *)
(***************************************************************************)
KB_AskOnce ==
    /\ impl = "KnowledgeBot"
    /\ pc = "idle"
    /\ turns = 0
    /\ \E text \in Utterances : Becomes(KB_process_query(Cfg, text))
    /\ turns' = 1
    /\ UNCHANGED << impl, peers >>

KBOnceNext ==
    \/ KB_AskOnce
    \/ KB_Search
    \/ KB_Page
    \/ KB_Summary
    \/ KB_OptionPage
    \/ KB_OptionSummary
    \/ Return

SpecKBOnce == Idle("KnowledgeBot") /\ [][KBOnceNext]_vars

(***************************************************************************)
(* Properties.  A call of process_query or clear_memory has ended when     *)
(* pc = "done"; out is what it gave its caller and gh what it did.         *)
(***************************************************************************)
Answered == pc = "done" /\ out.op = "process_query"

Cleared == pc = "done" /\ out.op = "clear_memory"

IsLC == impl = "LangChainKnowledgeBot"

IsKB == impl = "KnowledgeBot"

\* The positions inside _search_wikipedia and _search_wikipedia_direct.
ResolverSites ==
    {"kb_search", "kb_page", "kb_summary", "kb_opt_page", "kb_opt_summary",
     "lc_ceo_direct_page", "lc_ceo_direct_summary", "lc_ceo_search",
     "lc_ceo_probe_page", "lc_ceo_probe_summary", "lc_ceo_general_search",
     "lc_ceo_general_page", "lc_ceo_general_summary", "lc_company_page",
     "lc_company_summary", "lc_page", "lc_summary", "lc_option_page",
     "lc_option_summary", "lc_first_option_page", "lc_first_option_summary",
     "lc_search", "lc_result_page", "lc_result_summary",
     "lc_first_result_page", "lc_first_result_summary"}

\* C1: process_query never raises.  Whatever the text, the memory and the
\* outcome of each provider call (a value, DisambiguationError, PageError
\* or any other exception), a call of process_query of either bot that has
\* ended has returned a non-empty string.
C1_NeverRaises ==
    Answered => out.kind = "returned" /\ out.response # ""

\* A call has ended although a provider call raised a transport error that
\* no inner handler took: the text of that error came back as the response.
C1_Witness ==
    /\ Answered
    /\ IsLC
    /\ gh.called
    /\ out.response \in {LC_error(m) : m \in TransportMessages}

\* C2: ConversationMemory is a FIFO sliding window.  With capacity K, after
\* any sequence of save_context calls the history holds the last
\* min(K, n) of the n entries saved since it was last empty, oldest first,
\* hence never more than K and exactly K once K + 1 were saved.
C2_SlidingWindow ==
    LET K == memory.maxlen
        n == Len(mem_log)
    IN  /\ Len(memory.history) <= K
        /\ memory.history = SubSeq(mem_log, MaxOf({1, n - K + 1}), n)

\* K + 1 entries were saved into a memory of capacity K >= 2: K are left,
\* the first one saved is gone.
C2_Witness ==
    /\ memory.maxlen >= 2
    /\ Len(mem_log) = memory.maxlen + 1
    /\ Len(memory.history) = memory.maxlen
    /\ memory.history = Tail(mem_log)
    /\ memory.history[1] # mem_log[1]

\* C3: after clear_memory the memory equals its initial state: the history
\* is empty and the last-topic slot is none, both at once.
C3_ClearResets ==
    Cleared =>
        /\ memory = ConversationMemory(DefaultMaxHistory)
        /\ load_memory(memory) = ""
        /\ get_last_user_input(memory) = ""
        /\ lc_history = ""
        /\ last_entity = None

\* clear_memory has ended on a bot that held a history and a last topic.
C3_Witness ==
    /\ Cleared
    /\ IsLC
    /\ gh.pre_history # ""
    /\ gh.pre_entity # None
    /\ lc_history = ""
    /\ last_entity = None

\* The utterance is not empty and is nothing but a prefix that _clean_query
\* strips.
OnlyAPrefix ==
    /\ query # ""
    /\ IF IsLC THEN LC_clean_query(query) = "" ELSE KB_clean_query(query) = ""

\* C4: EmptyInput.  Whenever the normalized query is empty, process_query
\* returns the prompt-for-topic message and no provider call is made, in
\* every memory state, a follow-up with a known last topic included.
C4_EmptyInput ==
    (Answered /\ OnlyAPrefix) =>
        /\ ~gh.called
        /\ out.response = (IF IsLC THEN LC_provide_topic ELSE KB_provide_topic)

\* The case in which the code does what C4 says: no topic is known.
C4_Witness ==
    /\ Answered
    /\ OnlyAPrefix
    /\ ~gh.called
    /\ out.response = LC_provide_topic

\* C5: a transport error of one provider call counts as not-found for that
\* attempt only; no response is the error response into which a failed call
\* aborts the resolution.
C5_TransportErrorContained ==
    Answered => out.response \notin {LC_error(m) : m \in TransportMessages}

\* C6: a greeting makes no provider call, leaves the last topic as it was,
\* returns the greeting text, and the exchange is recorded as a turn.
C6_GreetingRecorded ==
    (Answered /\ lower(query) \in {"hi", "hello", "hey"}) =>
        /\ ~gh.called
        /\ IsLC => /\ out.response = LC_handle_greeting
                   /\ last_entity = gh.pre_entity
                   /\ lc_history =
                          SimpleMemory_save_context(gh.pre_history, query,
                                                    out.response)
        /\ IsKB => /\ out.response = KB_handle_greeting
                   /\ memory.history =
                          deque_append(gh.pre_memory, memory.maxlen,
                                       [user |-> query, bot |-> out.response])

\* LangChainKnowledgeBot does what C6 says.
C6_Witness ==
    /\ Answered
    /\ IsLC
    /\ lower(query) = "hello"
    /\ lc_history # ""
    /\ lc_history = SimpleMemory_save_context(gh.pre_history, query, out.response)

\* The response reports that nothing was found.
NotFoundResponse == contains(out.response, "Could not find information about")

\* C7: when every strategy is exhausted, the not-found response carries the
\* original text of the user, not the normalized or rewritten search string.
C7_NotFoundNamesOriginal ==
    (Answered /\ NotFoundResponse) =>
        out.response \in
            {LC_not_found(query), KB_no_results(query), KB_no_page(query)}

\* KnowledgeBot does what C7 says.
C7_Witness ==
    /\ Answered
    /\ IsKB
    /\ gh.called
    /\ out.response = KB_no_page(query)

\* C8: the candidates of a list are tried strictly in sequence and the first
\* accepted one wins: when a candidate has been accepted, the candidates
\* tried are exactly those up to it, in the order of the list (three tries
\* when the third is the first accepted), and the resolver makes no further
\* provider call.
C8_FirstAcceptedWins ==
    gh.accepted # None =>
        LET a == gh.accepted[1]
            tried == IF a.rung = "options" THEN gh.tried_options ELSE gh.tried
        IN  /\ pc \notin ResolverSites
            /\ a.idx \in 1..Len(a.of)
            /\ tried = Take(a.of, a.idx)

\* The first two candidates of the direct lookup failed and the third was
\* accepted.
C8_Witness ==
    /\ Answered
    /\ gh.accepted # None
    /\ gh.accepted[1].rung = "ceo_direct"
    /\ gh.accepted[1].idx = 3
    /\ Len(gh.tried) = 3

\* The response is a rendered page of the candidate accepted last.
ResolvedToPage ==
    /\ gh.accepted # None
    /\ startswith(out.response, "**" \o gh.accepted[1].title \o "**\n\n")

\* C9: after every process_query call that resolves to a page, a follow-up
\* included, the turn is written to the memory and the last topic is the
\* entity of the response of that call.
C9_TopicFollowsResponse ==
    (Answered /\ IsLC /\ ResolvedToPage) =>
        /\ lc_history =
               SimpleMemory_save_context(gh.pre_history, query, out.response)
        /\ last_entity = LC_extract_entity_from_response(out.response)

\* A query that is no follow-up resolved to a page: the code does what C9
\* says.
C9_Witness ==
    /\ Answered
    /\ IsLC
    /\ ResolvedToPage
    /\ ~LC_is_follow_up(query)
    /\ gh.pre_entity # last_entity
    /\ last_entity = LC_extract_entity_from_response(out.response)

\* The last topic is the title of a page a previous turn resolved to.
TopicIsTitle == gh.pre_entity # None /\ gh.pre_entity[1] \in Titles

\* C10: with a last topic N, "where was he born?" is a follow-up, the
\* resolver is handed "N birthplace", its result is the response, and the
\* CEO handling is not entered.
C10_BirthplaceFollowUp ==
    (Answered /\ IsLC /\ query = "where was he born?" /\ TopicIsTitle) =>
        /\ LC_is_follow_up(query)
        /\ gh.queries = << gh.pre_entity[1] \o " birthplace" >>
        /\ ~gh.ceo

\* The resolver found a page for "N birthplace": the code does what C10
\* says.
C10_Witness ==
    /\ Answered
    /\ IsLC
    /\ query = "where was he born?"
    /\ TopicIsTitle
    /\ ResolvedToPage
    /\ gh.queries = << gh.pre_entity[1] \o " birthplace" >>
    /\ ~gh.ceo

\* The topic a follow-up of the call in progress is resolved against:
\* last_entity, else the topic mined from the history (lines 213-219).
FollowUpTopic ==
    IF Truthy(gh.pre_entity) THEN gh.pre_entity[1]
    ELSE LC_extract_last_topic_from_history(gh.pre_history)

\* A call of LangChainKnowledgeBot.process_query has ended that took the
\* utterance for a follow-up, knew a topic and called the resolver.
FollowUpWithTopic ==
    /\ Answered
    /\ IsLC
    /\ LC_is_follow_up(query)
    /\ FollowUpTopic # ""
    /\ gh.queries # << >>

\* C11: for a follow-up with a known topic the first query is the
\* aspect-qualified one, and whichever aspect branch is taken every later
\* query of the cycle is the bare topic: the raw utterance is never searched.
C11_BareTopicRetry ==
    FollowUpWithTopic =>
        /\ gh.queries[1] = LC_follow_up_query(FollowUpTopic, query)
        /\ \A i \in 2..Len(gh.queries) : gh.queries[i] = FollowUpTopic

\* The education branch does what C11 says: "<topic> education" found
\* nothing and the bare topic was searched next.
C11_Witness ==
    /\ FollowUpWithTopic
    /\ LC_aspect(query) = "education"
    /\ gh.queries = << FollowUpTopic \o " education", FollowUpTopic >>

\* process_query mined the response for an entity (line 657) and found none.
MinedNone ==
    /\ Answered
    /\ IsLC
    /\ gh.mined
    /\ LC_extract_entity_from_response(out.response) = None

\* C12: when mining the rendered response yields no entity, the last topic
\* after the call equals the last topic before the call.
C12_TopicPreserved == MinedNone => last_entity = gh.pre_entity

\* C12 as the code has it: when mining the rendered response yields no
\* entity, the last topic becomes the entity extracted from the utterance
\* when there is one, and otherwise keeps the value it had before the call;
\* a topic that was known is never left at none.
C12_TopicFromQueryElsePreserved ==
    MinedNone =>
        /\ last_entity = (IF Truthy(LC_extract_entity(query))
                          THEN LC_extract_entity(query)
                          ELSE gh.pre_entity)
        /\ gh.pre_entity # None => last_entity # None

\* A topic was known, the utterance names no entity and nothing was found:
\* the topic is kept.
C12_Witness ==
    /\ MinedNone
    /\ gh.pre_entity # None
    /\ ~Truthy(LC_extract_entity(query))
    /\ NotFoundResponse
    /\ last_entity = gh.pre_entity

\* A call of LangChainKnowledgeBot.process_query has ended whose utterance
\* is no follow-up, matched the pattern with the literal lit and yielded an
\* entity.
RoleQuery(lit) ==
    /\ Answered
    /\ IsLC
    /\ gh.queries # << >>
    /\ ~LC_is_follow_up(query)
    /\ LC_matched_pattern(query) = Some(lit)
    /\ Truthy(LC_extract_entity(query))

RoleLiterals == {"ceo of", "president of", "capital of"}

\* search_query was computed for a text that yields an entity.
SearchQueryOfEntity ==
    /\ out.op = "search_query"
    /\ Truthy(LC_extract_entity(query))

\* C14: a role qualification is applied to the search string only when the
\* corresponding role pattern matched the utterance; an entity extracted by
\* a generic pattern is searched as it is.
C14_RoleOnlyOnRolePattern ==
    SearchQueryOfEntity =>
        LET entity == LC_extract_entity(query)[1]
            lit == LC_matched_pattern(query)[1]
        IN  /\ lit \notin RoleLiterals => out.response = entity
            /\ out.response = "CEO of " \o entity => lit = "ceo of"
            /\ out.response = "President of " \o entity => lit = "president of"
            /\ out.response = entity \o " (capital)" => lit = "capital of"

\* "What is quantum computing?": the generic pattern matched and the entity
\* is searched as it is.
C14_Witness ==
    /\ SearchQueryOfEntity
    /\ query = "What is quantum computing?"
    /\ LC_matched_pattern(query) = Some("what is")
    /\ out.response = "quantum computing"


(***************************************************************************)
(* C15: probing the options of a DisambiguationError.                      *)
(***************************************************************************)
OptionRungs == {"options", "option", "first_option"}

\* An option of a DisambiguationError was accepted as the answer.
OptionAccepted ==
    /\ gh.offered # None
    /\ gh.accepted # None
    /\ gh.accepted[1].rung \in OptionRungs

\* The options fetched so far, in the order of the fetches.
OptionProbes == IF IsKB THEN gh.tried_options ELSE gh.tried

IsPrefixOf(s, t) == Len(s) <= Len(t) /\ s = Take(t, Len(s))

\* The offered options, among the first five, that name the normalized
\* query or are named by it.
NamedOptions ==
    LET clean == LC_clean_query(gh.queries[Len(gh.queries)])
        Named(option) ==
            \/ contains(lower(option), lower(clean))
            \/ contains(lower(clean), lower(option))
    IN  SelectSeq(Take(gh.offered[1], 5), Named)

\* C15: on an ambiguity signal the offered alternatives are fetched in the
\* offered order, each of the first five and none beyond the fifth, and the
\* first alternative whose fetch succeeds is the answer: the fetched
\* alternatives are the first five up to the accepted one.
C15_ProbesEachOffered ==
    OptionAccepted =>
        /\ OptionProbes # << >>
        /\ IsPrefixOf(OptionProbes, Take(gh.offered[1], 5))
        /\ gh.accepted[1].cand = OptionProbes[Len(OptionProbes)]

\* C15 as the code has it: KnowledgeBot fetches each of the first five in
\* the offered order; LangChainKnowledgeBot fetches, in the offered order,
\* only those of the first five whose name contains the normalized query or
\* is contained in it, and after them the first offered alternative.  The
\* answer is the first fetched alternative whose fetch succeeds.
C15_ProbesOfferedInOrder ==
    /\ (IsKB /\ gh.offered # None) =>
           IsPrefixOf(gh.tried_options, Take(gh.offered[1], 5))
    /\ (IsLC /\ pc \in {"lc_option_page", "lc_option_summary"}) =>
           IsPrefixOf(gh.tried, NamedOptions)
    /\ OptionAccepted =>
           /\ OptionProbes # << >>
           /\ gh.accepted[1].cand = OptionProbes[Len(OptionProbes)]
           /\ gh.accepted[1].rung = "options" =>
                  IsPrefixOf(OptionProbes, Take(gh.offered[1], 5))
           /\ gh.accepted[1].rung = "option" =>
                  IsPrefixOf(OptionProbes, NamedOptions)
           /\ gh.accepted[1].rung = "first_option" =>
                  OptionProbes = << gh.offered[1][1] >>

\* KnowledgeBot answered with the second offered alternative after the fetch
\* of the first one failed.
C15_Witness ==
    /\ IsKB
    /\ OptionAccepted
    /\ gh.tried_options = Take(gh.offered[1], 2)
    /\ gh.offered[1][1] # gh.offered[1][2]
    /\ gh.accepted[1].cand = gh.offered[1][2]


(***************************************************************************)
(* C16: the ranked search after a PageError of the direct fetch.           *)
(***************************************************************************)
\* A candidate of a ranked search was accepted as the answer.
RankedAccepted ==
    /\ gh.accepted # None
    /\ gh.accepted[1].rung \in {"result", "first_result", "results"}

\* The acceptance filter of the ranked probing: LangChainKnowledgeBot wants
\* the normalized query in the title, KnowledgeBot takes every title.
PassesRanked(title) ==
    IsLC => contains(lower(title),
                     lower(LC_clean_query(gh.queries[Len(gh.queries)])))

CeoAnswered == gh.ceo /\ gh.accepted # None

\* Tokens that indicate a person in an executive role.
RoleTokens ==
    {"chief executive officer", "ceo", "executive", "born", "appointed",
     "sundar pichai", "tim cook", "satya nadella", "mark zuckerberg",
     "business executive", "american business", "indian business",
     "businessman"}

HasRoleToken(text) ==
    \E token \in RoleTokens : contains(lower(text), token)

\* The company of the CEO query handed to the resolver.
CeoCompany == LC_company_name(LC_clean_query(gh.queries[Len(gh.queries)]))

\* The specialized filter: a role token in the summary or the title, and a
\* title that does not contain the company name unless it contains "ceo".
RoleFilter(title, summary) ==
    /\ HasRoleToken(summary) \/ HasRoleToken(title)
    /\ \/ ~contains(lower(title), lower(CeoCompany))
       \/ contains(lower(title), "ceo")

\* C17: for a CEO query every page returned as the answer passed the
\* specialized acceptance filter, on every rung of the ladder.
C17_EveryRungFiltered ==
    CeoAnswered => RoleFilter(gh.accepted[1].title, gh.accepted[1].summary)

\* C17 as the code has it: the pages accepted by the two search-probing rungs
\* passed the specialized filter; a page accepted by the direct lookup has a
\* role token in its summary, whatever its title.
C17_ProbingRungsFiltered ==
    CeoAnswered =>
        LET a == gh.accepted[1]
        IN  /\ a.rung \in {"ceo_probe", "ceo_general"} =>
                   RoleFilter(a.title, a.summary)
            /\ a.rung = "ceo_direct" => HasRoleToken(a.summary)

\* The search probing accepted the page of a person for the company asked
\* about.
C17_Witness ==
    /\ CeoAnswered
    /\ gh.accepted[1].rung = "ceo_probe"
    /\ CeoCompany = "openai"
    /\ gh.accepted[1].title = "Sam Altman"


(***************************************************************************)
(* C18: _clean_query of either class.                                      *)
(***************************************************************************)
\* _clean_query of either class was applied to the query.
Normalized ==
    out.op \in {"KnowledgeBot._clean_query",
                "LangChainKnowledgeBot._clean_query"}

\* The prefix table of the class whose _clean_query was applied.
PrefixTable ==
    IF out.op = "KnowledgeBot._clean_query"
    THEN {KB_prefixes[k] : k \in 1..Len(KB_prefixes)}
    ELSE {LC_prefixes[k] : k \in 1..Len(LC_prefixes)}

\* C18: _clean_query returns a trimmed tail of the trimmed original, its
\* casing untouched.  When the lower-cased text starts with a prefix of the
\* table, what was removed in front of the tail is that one prefix and the
\* white space after it, nothing more (a second prefix stays); when it
\* starts with none, the result is the trimmed original.
C18_StripsOnePrefix ==
    Normalized =>
        LET text == strip(query)
            result == out.response
            removed == SubSeq(text, 1, Len(text) - Len(result))
        IN  /\ strip(result) = result
            /\ Len(result) <= Len(text)
            /\ result = SubSeq(text, Len(text) - Len(result) + 1, Len(text))
            /\ IF \E p \in PrefixTable : startswith(lower(text), p)
               THEN /\ strip(lower(removed)) \in PrefixTable
                    /\ startswith(lower(text), strip(lower(removed)))
               ELSE result = text

\* A text of mixed case that starts with two prefixes lost the first one.
C18_Witness ==
    /\ Normalized
    /\ query = "  who is what is Marie Curie?"
    /\ out.response = "what is Marie Curie?"


(***************************************************************************)
(* C19: _extract_entity.                                                   *)
(***************************************************************************)
EntityExtracted == out.op = "_extract_entity"

Articles == {"the", "a", "an"}

\* A sequence of words without the articles in front of it.
RECURSIVE DropLeadingArticles(_)
DropLeadingArticles(words) ==
    IF words # << >> /\ words[1] \in Articles
    THEN DropLeadingArticles(Tail(words))
    ELSE words

\* The span captured by the first pattern of the table that matches.
CapturedSpan ==
    PatternSearch(strip(lower(query)), LC_matched_pattern(query)[1])[1]

\* C19: the first matching pattern of the ordered table wins and the
\* captured span is returned with only its leading articles and its trailing
\* punctuation stripped, the remaining words kept in order; None is returned
\* when no pattern matches.
C19_LeadingArticlesOnly ==
    EntityExtracted =>
        IF LC_matched_pattern(query) = None THEN out.response = None
        ELSE /\ out.response # None
             /\ split(out.response[1]) =
                    DropLeadingArticles(split(rstrip_char(CapturedSpan, "?")))

\* The first example of the claim: the pattern "ceo of" wins over "who is",
\* which matches too, and the entity is "google".
C19_Witness ==
    /\ EntityExtracted
    /\ query = "Who is the CEO of Google?"
    /\ LC_matched_pattern(query) = Some("ceo of")
    /\ out.response = Some("google")


(***************************************************************************)
(* C20: _is_follow_up.                                                     *)
(***************************************************************************)
FollowUpClassified == out.op = "_is_follow_up"

\* The table of follow_up_patterns: each pattern as the texts it stands for,
\* anchored at the start of the utterance (^) or not.
FollowUpTable ==
    {<< TRUE, p >> :
        p \in {"he ", "she ", "they ", "it ", "where ", "when ", "how ",
               "why ", "which ", "tell me more", "more about", "what about"}}
    \cup {<< FALSE, "what" \o verb \o " " \o whose \o " " >> :
        verb \in {"", "'s", " is", " was"},
        whose \in {"his", "her", "their", "its"}}
    \cup {<< FALSE, p >> :
        p \in {"background", "history", "biography", "longest", "shortest",
               "biggest", "smallest", "highest", "lowest", "tallest",
               "among them", "of them"}}

PatternMatches(text, pattern) ==
    IF pattern[1] THEN startswith(text, pattern[2])
    ELSE contains(text, pattern[2])

\* C20: _is_follow_up returns true exactly when at least one pattern of the
\* table matches the lower-cased, trimmed utterance; "Where was he born?" is
\* a follow-up and "What is the capital of France?" is not.
C20_FollowUpExactly ==
    FollowUpClassified =>
        /\ out.response =
               (\E pattern \in FollowUpTable :
                    PatternMatches(strip(lower(query)), pattern))
        /\ query = "Where was he born?" => out.response = TRUE
        /\ query = "What is the capital of France?" => out.response = FALSE

\* The first example of the claim was classified.
C20_Witness ==
    /\ FollowUpClassified
    /\ query = "Where was he born?"
    /\ out.response = TRUE


(***************************************************************************)
(* C21: the response of _extract_education_info.                           *)
(***************************************************************************)
EduReturned == out.op = "_extract_education_info"

\* The page was fetched: the sentences come from its content; otherwise
\* they come from the response of the main page.
EduFullArticle == fr.page # None

\* The keyword-matching sentences of the text read, in the order of the text.
EduMatched ==
    IF EduFullArticle
    THEN LC_education_sentences(fr.page[1].content, LC_education_keywords)
    ELSE LC_education_sentences(fr.main, LC_education_keywords_fallback)

\* The response reports matching sentences.
EduReports == EduReturned /\ EduMatched # << >>

\* The response after its headline.
EduBody ==
    DropFirst(out.response, Len("**" \o fr.topic \o " - Education**\n\n"))

\* The sentences i and j of the matching ones stand in that order.
InOrder(i, j) ==
    MinOf(Occurrences(EduBody, EduMatched[i]))
        < MinOf(Occurrences(EduBody, EduMatched[j]))

HasEllipsis == contains(EduBody, "...")

HasSourceLink == contains(EduBody, "](https://")

\* C21: a response that reports matching sentences contains at most the
\* first four of them, in article order, has an ellipsis exactly when more
\* than four matched, and carries a source link, on the full-article path
\* and on the summary fallback path.
C21_FourEllipsisLinkOnBothPaths ==
    EduReports =>
        /\ startswith(out.response, "**" \o fr.topic \o " - Education**\n\n")
        /\ \A i \in 1..Len(EduMatched) :
               contains(EduBody, EduMatched[i]) => i <= 4
        /\ \A i, j \in 1..Len(EduMatched) :
               (i < j /\ contains(EduBody, EduMatched[j])) => InOrder(i, j)
        /\ HasEllipsis <=> Len(EduMatched) > 4
        /\ HasSourceLink

\* C21 as the code has it: the full-article path reports the first four
\* matching sentences in article order, with an ellipsis exactly when more
\* than four matched and with the link of the page; the summary fallback
\* path reports the first three, with no ellipsis and no link.
C21_FourOnArticleThreeOnFallback ==
    EduReports =>
        LET most == IF EduFullArticle THEN 4 ELSE 3
        IN  /\ startswith(out.response,
                          "**" \o fr.topic \o " - Education**\n\n")
            /\ \A i \in 1..Len(EduMatched) :
                   contains(EduBody, EduMatched[i]) <=> i <= most
            /\ \A i, j \in 1..Len(EduMatched) :
                   (i < j /\ j <= most) => InOrder(i, j)
            /\ HasEllipsis <=> (EduFullArticle /\ Len(EduMatched) > 4)
            /\ HasSourceLink <=> EduFullArticle
            /\ EduFullArticle =>
                   contains(EduBody, "](" \o fr.page[1].url \o ")")

\* An article with six matching sentences was read: four are reported and
\* the ellipsis follows.
C21_Witness ==
    /\ EduReports
    /\ EduFullArticle
    /\ Len(EduMatched) = 6
    /\ HasEllipsis


(***************************************************************************)
(* C22: two bots of one process.                                           *)
(***************************************************************************)
TwoBots == peers.active # 0

\* The bot that is not being called.
OtherBot == 3 - peers.active

\* What bot i would find if it were called now: the object its reference
\* points to (the one in use when the active bot holds the same reference)
\* and its own last_entity.
StateOf(i) ==
    BotState(IF peers.ref[i] = peers.ref[peers.active]
             THEN MemoryObject(memory, mem_log, lc_history)
             ELSE peers.heap[peers.ref[i]],
             peers.last_entity[i])

\* C22: sessions are independent.  Whatever process_query and clear_memory
\* calls the active bot gets, and wherever such a call stands, the other bot
\* finds the history and the last topic that its own last call (or its
\* construction) left; its responses, which depend on these, on the query
\* and on the provider alone, are therefore unchanged as well.
C22_SessionsIndependent ==
    TwoBots => StateOf(OtherBot) = peers.owned[OtherBot]

\* One bot has resolved a query and kept a topic and a history; after it the
\* other bot was called and answered, and has not seen either.
C22_Witness ==
    /\ TwoBots
    /\ Answered
    /\ peers.owned[OtherBot].last_entity # None
    /\ peers.owned[OtherBot].object.lc_history # ""
    /\ IsLC
    /\ gh.pre_history = ""
    /\ gh.pre_entity = None


(***************************************************************************)
(* C23: how many turns the history holds.                                  *)
(***************************************************************************)
\* The turns in the history of LangChainKnowledgeBot: one "Human:" line each.
LC_turns_held == Cardinality(Occurrences(lc_history, "Human: "))

\* The last n entries of a sequence.
LastOf(seq, n) ==
    IF Len(seq) <= n THEN seq ELSE SubSeq(seq, Len(seq) - n + 1, Len(seq))

\* KnowledgeBot holds the latest 10 of the turns it saved, the oldest gone
\* first.
KB_holds_latest ==
    /\ Len(memory.history) <= 10
    /\ memory.history = LastOf(mem_log, 10)

KB_InCall == IsKB /\ pc \notin {"idle", "done"}

\* The call of KnowledgeBot has returned a string.
KB_Ended == IsKB /\ pc = "done" /\ out.kind = "returned"

\* At most 5 searches, at most 5 results probed, at most 5 options probed
\* for the result at hand.
KB_CallBounds ==
    IsKB =>
        /\ gh.searches <= 5
        /\ Len(gh.tried) <= 5
        /\ Len(gh.tried_options) <= 5
        /\ (gh.searches > 1 /\ gh.ranked # None /\ gh.ranked[1] # << >>) =>
               pc # "kb_search"

\* What is left of the call, at most: the searches not yet made while
\* searching; then the results not yet probed, and for the result at hand
\* its page, its summary and the options not yet probed.
KB_Rank ==
    IF pc = "kb_search" THEN 1000 + (5 - gh.searches)
    ELSE IF pc = "kb_page" THEN 100 * (5 - fr.i) + 40
    ELSE IF pc = "kb_summary" THEN 100 * (5 - fr.i) + 39
    ELSE IF pc = "kb_opt_page" THEN 100 * (5 - fr.i) + 2 * (6 - fr.j)
    ELSE IF pc = "kb_opt_summary" THEN 100 * (5 - fr.i) + 2 * (6 - fr.j) - 1
    ELSE 0

\* C24: provided every provider call returns, every process_query call of
\* KnowledgeBot ends with a string, after at most 5 search calls (none after
\* the first one with a result), at most 5 results probed and at most 5
\* options probed per result: every answer of the provider brings the call
\* nearer to its end, which is a returned string.
C24_TerminatesWithinBounds ==
    /\ [](KB_CallBounds)
    /\ [](KB_InCall => KB_Rank > 0)
    /\ [](IsKB /\ pc = "done" => out.kind = "returned")
    /\ [][KB_InCall => KB_Rank' < KB_Rank]_vars

\* All five searches were made and the call has ended.
C24_Witness ==
    /\ KB_Ended
    /\ gh.searches = 5


(***************************************************************************)
(* C25                                                                     *)
(***************************************************************************)
\* The exchanges process_query answers itself (lines 608-622), as recorded.
SpecialExchanges ==
    {<< "Hello", LC_handle_greeting >>, << "help", LC_get_help >>,
     << "thanks", LC_handle_thanks >>}

\* The histories that hold one or two such exchanges and nothing else.
SpecialHistories ==
    LET one == {SimpleMemory_save_context("", e[1], e[2]) : e \in SpecialExchanges}
    IN  one \cup {SimpleMemory_save_context(h, e[1], e[2]) :
                     h \in one, e \in SpecialExchanges}

\* What the recorded exchanges say: the utterances, and the heading of the
\* help text.
SpecialTexts == {"Hello", "help", "thanks", "HELP - LangChain Knowledge Bot"}

\* A follow-up is being handled, or was, with no topic resolved so far and
\* a history of greeting, help and thanks exchanges only.
FollowUpAfterSpecialTurns ==
    /\ IsLC
    /\ pc # "idle"
    /\ out.op # "clear_memory"
    /\ LC_is_follow_up(query)
    /\ ~Truthy(gh.pre_entity)
    /\ gh.pre_history \in SpecialHistories

\* C25: a greeting, help or thanks exchange never supplies the topic of a
\* later follow-up: with no topic resolved so far, no query handed to the
\* provider is built from the text of such a recorded exchange.
C25_SpecialTurnsGiveNoTopic ==
    FollowUpAfterSpecialTurns =>
        \A i \in 1..Len(gh.queries) :
            \A t \in SpecialTexts : ~contains(gh.queries[i], t)

\* After "Hello", the follow-up "where was he born?" asks the provider for
\* "Hello birthplace".
C25_Witness ==
    /\ FollowUpAfterSpecialTurns
    /\ query = "where was he born?"
    /\ gh.queries # << >>
    /\ gh.queries[1] = "Hello birthplace"

=============================================================================
